---- MODULE Spec2Model ----
(***************************************************************************)
(* A model of the pipe-puzzle core: tile catalog, variant precompute,     *)
(* compatibility index, connection validator, solver state, backtracking  *)
(* solver, enumeration solver, constraint propagation, the two solution   *)
(* builders and the puzzle generator.                                      *)
(*                                                                         *)
(* Lengths are kept as integers in hundredths of a cell (0.18 is 18,       *)
(* 0.5 is 50, one cell is 100).  Every coordinate the program computes is  *)
(* a multiple of 0.01 up to a rounding error of about 1e-16, and every     *)
(* comparison it makes has a tolerance of 0.01 or is a toFixed(4) string,  *)
(* so the integer arithmetic decides each comparison as the program does.  *)
(* A missing connector (null) is the string "none".                        *)
(***************************************************************************)
EXTENDS Integers, Sequences, FiniteSets, TLC

VARIABLES
  \* ConnectionValidator: the tile list handed to validateConnections and
  \* what it returned
  tiles, validation,
  \* CompatibilityBuilder: the last lookup (variant, variant, direction) and
  \* the two answers of getCompatibleVariants
  lookup, found,
  \* The puzzle given to the SolverState constructor or to solve
  puzzle,
  \* SolverState: the state object and the last applyPlacement call on it
  \* (arguments, returned value, the state before the call)
  state, call,
  \* Backtracker: the options after defaults, where solve is ("search" or
  \* "done"), the pending search() calls (innermost last), ctx.solutions,
  \* ctx.trace, the clock Date.now() reads, ctx.startTime, whether a
  \* shouldStop check ever found the deadline passed, and the SolverResult
  options, pc, stack, solutions, trace, now, startTime, abandoned, result,
  \* What the calls of solve made so far returned, oldest first
  runs,
  \* SolutionBuilder: the buildSolution call (its config, start cell, the
  \* options not tried yet, where it is) and what it returned
  build, built,
  \* TileBuilder: a getCanonicalConfig call on a config and on one of its
  \* symmetric images, and the loop of generateAllTiles
  canon, catalog,
  \* precompute: the loop of generateAllTileRecords
  records,
  \* The enumeration solver: one call of its solve
  enumeration,
  \* Propagator: the state handed to a propagation function, its queue and
  \* what the function returned
  propagation,
  \* The random-walk builder: one call of its buildSolution
  walk,
  \* generatePuzzle: one call, its attempts and what it returned
  generation,
  \* The edge logic of the builder and the variant table against the
  \* validator: the placed tile looked at and what each of them reports
  geometry,
  \* Game and Grid: the board, the puzzle being played, its inventory
  \* counters and the undo history
  game,
  \* A UnionFind object and what the last call on it returned
  unionFind

validatorVars == <<tiles, validation>>
compatVars == <<lookup, found>>
stateVars == <<state, call>>
solveVars == <<options, pc, stack, solutions, trace, now, startTime, abandoned, result, runs>>
buildVars == <<build, built>>
tileVars == <<canon, catalog, records>>
generatorVars == <<propagation, walk, generation>>
restVars == <<geometry, game, unionFind>>

----------------------------------------------------------------------------
(* Small helpers *)

Abs(n) == IF n < 0 THEN -n ELSE n

Range(s) == {s[i] : i \in 1..Len(s)}

RECURSIVE SeqSum(_)
SeqSum(s) == IF s = <<>> THEN 0 ELSE Head(s) + SeqSum(Tail(s))

----------------------------------------------------------------------------
(* Tile catalog: src/src/tiles/TileBuilder.ts *)

\* ConnectorPos values in the order generateAllTiles enumerates them
positions == <<"none", "left", "middle", "right">>

EDGES == <<"top", "right", "bottom", "left">>

\* p || 'x' : the token a position contributes to the canonical string
Token(p) == IF p = "none" THEN "x" ELSE p

\* Order of the tokens under the default string sort: "left" < "middle" <
\* "right" < "x" (the first letters differ, no token is a prefix of another)
TokenRank(t) ==
  CASE t = "left" -> 0 [] t = "middle" -> 1 [] t = "right" -> 2 [] OTHER -> 3

\* a < b for two joined strings "t1-t2-t3-t4", given as token 4-tuples
StringLess(a, b) ==
  \E i \in 1..4 :
    /\ TokenRank(a[i]) < TokenRank(b[i])
    /\ \A j \in 1..(i - 1) : a[j] = b[j]

mirrorEdge(pos) ==
  CASE pos = "left" -> "right" [] pos = "right" -> "left" [] OTHER -> pos

\* The eight strings getCanonicalConfig builds (4 rotations, 4 rotations of
\* the mirror), each as its token tuple
CanonicalCandidates(config) ==
  LET edges == <<config.top, config.right, config.bottom, config.left>>
      mirrored == <<mirrorEdge(config.top), mirrorEdge(config.left),
                    mirrorEdge(config.bottom), mirrorEdge(config.right)>>
      rot(e, r) == [i \in 1..4 |-> Token(e[((i - 1 + r) % 4) + 1])]
  IN  {rot(edges, r) : r \in 0..3} \cup {rot(mirrored, r) : r \in 0..3}

\* getCanonicalConfig that compares the four rotations only
getCanonicalConfigRotationsOnly(config) ==
  LET edges == <<config.top, config.right, config.bottom, config.left>>
      c == {[i \in 1..4 |-> Token(edges[((i - 1 + r) % 4) + 1])] : r \in 0..3}
  IN  CHOOSE m \in c : \A o \in c : ~StringLess(o, m)

\* variants.sort(); return variants[0]
getCanonicalConfig(config) ==
  LET c == CanonicalCandidates(config)
  IN  CHOOSE m \in c : \A o \in c : ~StringLess(o, m)

\* The n-th config of the four nested loops (top outermost, left innermost)
LoopConfig(n) ==
  [top    |-> positions[(n \div 64) + 1],
   right  |-> positions[((n \div 16) % 4) + 1],
   bottom |-> positions[((n \div 4) % 4) + 1],
   left   |-> positions[(n % 4) + 1]]

connectorCount(config) ==
  Cardinality({i \in 1..4 : config[EDGES[i]] # "none"})

\* generateStep without the test for empty tiles
generateStepKeepsEmpty(n, st) ==
  LET config == LoopConfig(n)
      canonical == getCanonicalConfig(config)
  IN  IF canonical \in st.seen
      THEN st
      ELSE [tiles |-> Append(st.tiles, config), seen |-> st.seen \cup {canonical}]

\* One pass of the loop body: skip empty tiles and canonical forms already
\* seen, otherwise push the config
generateStep(n, st) ==
  LET config == LoopConfig(n)
      canonical == getCanonicalConfig(config)
  IN  IF connectorCount(config) = 0 \/ canonical \in st.seen
      THEN st
      ELSE [tiles |-> Append(st.tiles, config), seen |-> st.seen \cup {canonical}]

\* The loop passes lo..hi in order (split in halves, the first half computed
\* before the second starts, to keep the evaluation shallow)
RECURSIVE generateRange(_, _, _)
generateRange(lo, hi, st) ==
  IF lo = hi THEN generateStep(lo, st)
  ELSE LET mid == (lo + hi) \div 2
           first == generateRange(lo, mid, st)
       IN  IF Len(first.tiles) >= 0 THEN generateRange(mid + 1, hi, first) ELSE first

generateAllTiles == generateRange(0, 255, [tiles |-> <<>>, seen |-> {}]).tiles

\* GENERATED_TILES[i + 1] is the config of the tile with id tile_i
GENERATED_TILES == generateAllTiles

TileIds == 0..(Len(GENERATED_TILES) - 1)

\* GENERATED_TILES.find(t => t.id === id)?.config, for an id of the catalog
\* (the callers test tileId \in TileIds where the program tests for null)
getTileConfig(tileId) == GENERATED_TILES[tileId + 1]

----------------------------------------------------------------------------
(* Connector geometry shared by the validator and the variant generator *)

CORNER_OFFSET == 18

getPositionOffset(pos) ==
  CASE pos = "left" -> -CORNER_OFFSET
    [] pos = "middle" -> 0
    [] pos = "right" -> CORNER_OFFSET
    [] OTHER -> 0

\* Local 2D position of a connector, tile centred at the origin
getLocalPosition(edge, pos) ==
  LET posOffset == getPositionOffset(pos)
  IN  CASE edge = "top"    -> [localX |-> posOffset,  localY |-> 50]
        [] edge = "bottom" -> [localX |-> -posOffset, localY |-> -50]
        [] edge = "right"  -> [localX |-> 50,         localY |-> -posOffset]
        [] edge = "left"   -> [localX |-> -50,        localY |-> posOffset]

applyFlip(localX, localY, flipped) ==
  IF flipped THEN [x |-> localX, y |-> -localY] ELSE [x |-> localX, y |-> localY]

\* cos and sin of a multiple of 90 degrees
Cos(rotation) ==
  CASE rotation % 360 = 0 -> 1 [] rotation % 360 = 180 -> -1 [] OTHER -> 0
Sin(rotation) ==
  CASE rotation % 360 = 90 -> 1 [] rotation % 360 = 270 -> -1 [] OTHER -> 0

applyRotation(x, y, rotation) ==
  [x |-> x * Cos(rotation) - y * Sin(rotation),
   y |-> x * Sin(rotation) + y * Cos(rotation)]

----------------------------------------------------------------------------
(* Connection validator: src/unnamed/part_008 (game/ConnectionValidator) *)

\* World position of a connector of a placed tile; tile.position is <<x,y,z>>
getConnectorWorldPos(tile, edge, pos) ==
  LET x == tile.position[1]
      y == tile.position[2]
      z == tile.position[3]
      l == getLocalPosition(edge, pos)
      f == applyFlip(l.localX, l.localY, tile.flipped)
      r == applyRotation(f.x, f.y, tile.rotation)
  IN  CASE tile.orientation = "flat" ->
             [wx |-> 100 * x + 50 + r.x, wy |-> 100 * y, wz |-> 100 * z + 50 - r.y]
        [] tile.orientation = "vertical-x" ->
             [wx |-> 100 * x + 100, wy |-> 100 * y + 50 + r.y, wz |-> 100 * z + 50 + r.x]
        [] tile.orientation = "vertical-z" ->
             [wx |-> 100 * x + 50 - r.x, wy |-> 100 * y + 50 + r.y, wz |-> 100 * z + 100]

\* The connectors of the i-th tile of a list, each tagged with its tile (the
\* index stands for the object identity the validator compares) and edge
getTileConnectors(list, i) ==
  LET config == getTileConfig(list[i].definition)
  IN  IF list[i].definition \notin TileIds THEN {}
      ELSE {[tile |-> i, edge |-> e, pos |-> config[e],
             w |-> getConnectorWorldPos(list[i], e, config[e])] :
              e \in {d \in Range(EDGES) : config[d] # "none"}}

TOLERANCE == 1

connectorsMatch(a, b) ==
  /\ Abs(a.w.wx - b.w.wx) < TOLERANCE
  /\ Abs(a.w.wy - b.w.wy) < TOLERANCE
  /\ Abs(a.w.wz - b.w.wz) < TOLERANCE

RECURSIVE Reach(_, _)
Reach(adjacent, visited) ==
  LET next == visited \cup {j \in DOMAIN adjacent : \E i \in visited : j \in adjacent[i]}
  IN  IF next = visited THEN visited ELSE Reach(adjacent, next)

\* BFS from the first tile over the matched pairs
checkGraphConnectivity(list, pairs) ==
  IF Len(list) = 0 THEN TRUE
  ELSE LET adjacent == [i \in 1..Len(list) |->
                          {j \in 1..Len(list) :
                             \E p \in pairs : {p[1].tile, p[2].tile} = {i, j} /\ i # j}]
       IN  Cardinality(Reach(adjacent, {1})) = Len(list)

validateConnections(list) ==
  LET allConnectors == UNION {getTileConnectors(list, i) : i \in 1..Len(list)}
      connectedPairs == {p \in allConnectors \X allConnectors :
                           /\ p[1].tile < p[2].tile
                           /\ connectorsMatch(p[1], p[2])}
      connectedSet == {p[1] : p \in connectedPairs} \cup {p[2] : p \in connectedPairs}
      openConnectors == allConnectors \ connectedSet
      allConnected == Len(list) <= 1 \/ checkGraphConnectivity(list, connectedPairs)
  IN  [valid |-> openConnectors = {} /\ allConnected,
       openConnectors |-> openConnectors,
       connectedPairs |-> connectedPairs]

----------------------------------------------------------------------------
(* Variant precompute: src/unnamed/part_007 (precompute/VariantGenerator) *)

ORIENTATIONS == <<"flat", "vertical-x", "vertical-z">>
ROTATIONS == <<0, 90, 180, 270>>

\* localToWorldOffset with a vertical-z tile laid out as a vertical-x one
localToWorldOffsetUnmirrored(rx, ry, orientation) ==
  CASE orientation = "flat"       -> <<50 + rx, 0, 50 - ry>>
    [] orientation = "vertical-x" -> <<100, 50 + ry, 50 + rx>>
    [] orientation = "vertical-z" -> <<50 + rx, 50 + ry, 100>>
    [] OTHER -> <<0, 0, 0>>

\* Offset of a connector from the cell origin, as <<x, y, z>>
localToWorldOffset(rx, ry, orientation) ==
  CASE orientation = "flat"       -> <<50 + rx, 0, 50 - ry>>
    [] orientation = "vertical-x" -> <<100, 50 + ry, 50 + rx>>
    [] orientation = "vertical-z" -> <<50 - rx, 50 + ry, 100>>
    [] OTHER -> <<0, 0, 0>>

computeConnectorWorldOffset(edge, pos, rotation, flipped, orientation) ==
  LET local == getLocalPosition(edge, pos)
      flipped2D == applyFlip(local.localX, local.localY, flipped)
      rotated == applyRotation(flipped2D.x, flipped2D.y, rotation)
  IN  localToWorldOffset(rotated.x, rotated.y, orientation)

\* The connectors of a variant: one per edge of the config that has one
generateConnectors(config, rotation, flipped, orientation) ==
  {[edge |-> e, position |-> config[e],
    worldOffset |-> computeConnectorWorldOffset(e, config[e], rotation, flipped, orientation)] :
     e \in {d \in Range(EDGES) : config[d] # "none"}}

\* The sorted, joined toFixed(4) strings of the offsets: two connector lists
\* get the same string exactly when they have the same offsets (the offsets
\* of one variant are pairwise different), so the signature is kept as the
\* set of offsets
getConnectorSignature(connectors) == {c.worldOffset : c \in connectors}

\* `${tileId}:${rotation}:${flipped}:${orientation}`
variantKey(tileId, rotation, flipped, orientation) ==
  [tileId |-> tileId, rotation |-> rotation, flipped |-> flipped,
   orientation |-> orientation]

\* The n-th pass of the loops of generateTileVariants: orientation outermost,
\* then rotation, then flipped in the order false, true
VariantLoop(tileId, n) ==
  variantKey(tileId, ROTATIONS[((n \div 2) % 4) + 1], n % 2 = 1,
             ORIENTATIONS[(n \div 8) + 1])

variantConnectors(key) ==
  generateConnectors(getTileConfig(key.tileId), key.rotation, key.flipped,
                     key.orientation)

\* One pass of the loops with the signature taken without the orientation
variantStepIgnoresOrientation(tileId, n, prev) ==
  LET key == VariantLoop(tileId, n)
      signature == getConnectorSignature(variantConnectors(key))
  IN  IF signature \in prev.seenSignatures THEN prev
      ELSE [variants |-> Append(prev.variants, key),
            seenSignatures |-> prev.seenSignatures \cup {signature}]

\* The n-th pass of the loops: the variant is kept unless its signature
\* (orientation and connector offsets) was seen
variantStep(tileId, n, prev) ==
  LET key == VariantLoop(tileId, n)
      signature == <<key.orientation, getConnectorSignature(variantConnectors(key))>>
  IN  IF signature \in prev.seenSignatures THEN prev
      ELSE [variants |-> Append(prev.variants, key),
            seenSignatures |-> prev.seenSignatures \cup {signature}]

\* Variants kept by the passes 0..n-1, in order, with the signatures seen
RECURSIVE variantsUpTo(_, _)
variantsUpTo(tileId, n) ==
  IF n = 0 THEN [variants |-> <<>>, seenSignatures |-> {}]
  ELSE LET prev == variantsUpTo(tileId, n - 1)
       IN  variantStep(tileId, n - 1, prev)

generateTileVariants(tileId) == variantsUpTo(tileId, 24).variants

\* getTileRecords(): tile id -> its kept variants, computed once
generateAllTileRecords == [t \in TileIds |-> generateTileVariants(t)]

getTileVariants(tileId) ==
  IF tileId \in TileIds THEN generateAllTileRecords[tileId] ELSE <<>>

\* getVariants(): every kept variant key
getVariants == UNION {Range(generateAllTileRecords[t]) : t \in TileIds}

----------------------------------------------------------------------------
(* Compatibility index: src/unnamed/part_006 (precompute/CompatibilityBuilder) *)

Directions == {"posX", "negX", "posY", "negY", "posZ", "negZ"}

DIRECTION_VECTORS(direction) ==
  CASE direction = "posX" -> <<100, 0, 0>>
    [] direction = "negX" -> <<-100, 0, 0>>
    [] direction = "posY" -> <<0, 100, 0>>
    [] direction = "negY" -> <<0, -100, 0>>
    [] direction = "posZ" -> <<0, 0, 100>>
    [] direction = "negZ" -> <<0, 0, -100>>

OPPOSITE_DIRECTION(direction) ==
  CASE direction = "posX" -> "negX"
    [] direction = "negX" -> "posX"
    [] direction = "posY" -> "negY"
    [] direction = "negY" -> "posY"
    [] direction = "posZ" -> "negZ"
    [] direction = "negZ" -> "posZ"

getRelevantDirections(orientation) ==
  CASE orientation = "flat"       -> {"posX", "negX", "posZ", "negZ"}
    [] orientation = "vertical-x" -> {"posY", "negY", "posZ", "negZ"}
    [] orientation = "vertical-z" -> {"posX", "negX", "posY", "negY"}
    [] OTHER -> {}

\* threshold = 0.4
FACE_THRESHOLD == 40

connectorFacesDirection(connector, direction, orientation) ==
  LET offset == connector.worldOffset
      threshold == FACE_THRESHOLD
      x == offset[1]
      y == offset[2]
      z == offset[3]
  IN  CASE orientation = "flat" ->
             CASE direction = "posX" -> x > threshold
               [] direction = "negX" -> x < 100 - threshold
               [] direction = "posZ" -> z > threshold
               [] direction = "negZ" -> z < 100 - threshold
               [] OTHER -> FALSE
        [] orientation = "vertical-x" ->
             CASE direction = "posY" -> y > threshold
               [] direction = "negY" -> y < 100 - threshold
               [] direction = "posZ" -> z > threshold
               [] direction = "negZ" -> z < 100 - threshold
               [] OTHER -> FALSE
        [] orientation = "vertical-z" ->
             CASE direction = "posX" -> x > threshold
               [] direction = "negX" -> x < 100 - threshold
               [] direction = "posY" -> y > threshold
               [] direction = "negY" -> y < 100 - threshold
               [] OTHER -> FALSE
        [] OTHER -> FALSE

getConnectorsFacingDirection(variant, direction) ==
  {c \in variantConnectors(variant) :
     connectorFacesDirection(c, direction, variant.orientation)}

\* connectorsMatch of the compatibility builder: conn1 of the variant at the
\* origin against conn2 of the variant one cell away in the direction
variantConnectorsMatch(conn1, conn2, direction) ==
  LET dirVec == DIRECTION_VECTORS(direction)
      pos1 == conn1.worldOffset
      pos2 == [i \in 1..3 |-> dirVec[i] + conn2.worldOffset[i]]
  IN  \A i \in 1..3 : Abs(pos1[i] - pos2[i]) < TOLERANCE

variantsCompatible(variant1, variant2, direction) ==
  LET conns1 == getConnectorsFacingDirection(variant1, direction)
      conns2 == getConnectorsFacingDirection(variant2, OPPOSITE_DIRECTION(direction))
  IN  IF conns1 = {} /\ conns2 = {} THEN TRUE
      ELSE IF conns1 = {} \/ conns2 = {} THEN FALSE
      ELSE IF Cardinality(conns1) # Cardinality(conns2) THEN FALSE
      ELSE \A c1 \in conns1 : \E c2 \in conns2 : variantConnectorsMatch(c1, c2, direction)

\* matrix.data.get(variantKey)?.get(direction) ?? new Set(): the matrix has a
\* row for every kept variant and, in it, an entry for each direction
\* relevant to the variant's own orientation, filled from every kept variant
getCompatibleVariants(key, direction) ==
  IF key \in getVariants /\ direction \in getRelevantDirections(key.orientation)
  THEN {v2 \in getVariants : variantsCompatible(key, v2, direction)}
  ELSE {}

----------------------------------------------------------------------------
(* Keys: src/unnamed/part_007 (puzzle/types).  A key string is kept as the  *)
(* tuple of the values it is built from                                     *)

cellKey(x, y, z) == <<x, y, z>>

cellOrientationKey(x, y, z, o) == <<<<x, y, z>>, o>>

----------------------------------------------------------------------------
(* Union-find: src/unnamed/part_002 (puzzle/utils/UnionFind) *)

\* f with the entry k -> v set (Map.set)
MapSet(f, k, v) == [x \in DOMAIN f \cup {k} |-> IF x = k THEN v ELSE f[x]]

NewUnionFind == [parent |-> <<>>, rank |-> <<>>, componentCount |-> 0]

UnionFindAdd(uf, x) ==
  IF x \in DOMAIN uf.parent THEN uf
  ELSE [parent |-> MapSet(uf.parent, x, x),
        rank |-> MapSet(uf.rank, x, 0),
        componentCount |-> uf.componentCount + 1]

----------------------------------------------------------------------------
(* Solver state: src/src/puzzle/solver/SolverState.ts                       *)
(* A Map is a function plus, where the program iterates it, the sequence of *)
(* its keys in insertion order; a Set that is iterated is a sequence        *)

\* Number of passes of a loop "for (v = lo; v <= hi; v++)"
LoopCount(lo, hi) == IF hi >= lo THEN hi - lo + 1 ELSE 0

\* The slot keys in the order initializeDomains inserts them: x outermost,
\* then y, then z, then the three orientations
SlotKeys(bounds) ==
  LET ny == LoopCount(bounds.min[2], bounds.max[2])
      nz == LoopCount(bounds.min[3], bounds.max[3])
      n  == LoopCount(bounds.min[1], bounds.max[1]) * ny * nz * 3
  IN  [k \in 1..n |->
         cellOrientationKey(bounds.min[1] + ((k - 1) \div (3 * nz * ny)),
                            bounds.min[2] + (((k - 1) \div (3 * nz)) % ny),
                            bounds.min[3] + (((k - 1) \div 3) % nz),
                            ORIENTATIONS[((k - 1) % 3) + 1])]

\* Appends the elements of more that are not yet in acc (Set.add in a
\* loop): each new element once, at its first occurrence
AddAll(acc, more) ==
  LET keep == {i \in 1..Len(more) :
                 /\ more[i] \notin Range(acc)
                 /\ \A j \in 1..(i - 1) : more[j] # more[i]}
  IN  acc \o [k \in 1..Cardinality(keep) |->
                more[CHOOSE i \in keep : Cardinality({j \in keep : j <= i}) = k]]

\* The domain initializeDomains gives a slot of an orientation: the variants
\* of that orientation of every tile id of puzzle.tiles, in order
RECURSIVE initialDomain(_, _)
initialDomain(tileSpecs, orientation) ==
  IF tileSpecs = <<>> THEN <<>>
  ELSE LET last == tileSpecs[Len(tileSpecs)]
           mine == SelectSeq(getTileVariants(last.tileId),
                             LAMBDA v : v.orientation = orientation)
       IN  AddAll(initialDomain(SubSeq(tileSpecs, 1, Len(tileSpecs) - 1), orientation),
                  mine)

initializeDomains(pz) ==
  [key \in Range(SlotKeys(pz.gridBounds)) |-> initialDomain(pz.tiles, key[2])]

\* availableTiles after the constructor's loop: the last count given for each id
initialAvailableTiles(tileSpecs) ==
  [t \in {tileSpecs[i].tileId : i \in 1..Len(tileSpecs)} |->
     LET last == CHOOSE i \in 1..Len(tileSpecs) :
                   /\ tileSpecs[i].tileId = t
                   /\ \A j \in (i + 1)..Len(tileSpecs) : tileSpecs[j].tileId # t
     IN  tileSpecs[last].count]

placementKey(placement) ==
  cellOrientationKey(placement.cell[1], placement.cell[2], placement.cell[3],
                     placement.orientation)

\* placements.set(key, placement): replaces the placement of the slot in
\* place, or appends it
placementsSet(placed, placement) ==
  IF \E i \in 1..Len(placed) : placementKey(placed[i]) = placementKey(placement)
  THEN [i \in 1..Len(placed) |->
          IF placementKey(placed[i]) = placementKey(placement) THEN placement
          ELSE placed[i]]
  ELSE Append(placed, placement)

placementsHas(s, key) == \E i \in 1..Len(s.placements) : placementKey(s.placements[i]) = key

getRemainingCount(s, tileId) ==
  IF tileId \in DOMAIN s.availableTiles THEN s.availableTiles[tileId] ELSE 0

\* applyPlacement with the placement recorded ahead of the availability check
applyPlacementRecordsFirst(s, placement, isFixed) ==
  LET key == placementKey(placement)
      vKey == variantKey(placement.tileId, placement.rotation, placement.flipped,
                         placement.orientation)
      available == getRemainingCount(s, placement.tileId)
      recorded == [s EXCEPT !.placements = placementsSet(@, placement)]
  IN  IF key \notin DOMAIN s.domains \/ vKey \notin Range(s.domains[key])
      THEN [ok |-> FALSE, state |-> s]
      ELSE IF available <= 0 /\ ~isFixed
      THEN [ok |-> FALSE, state |-> recorded]
      ELSE [ok |-> TRUE,
            state |->
              [recorded EXCEPT
                 !.domains = [@ EXCEPT ![key] = <<vKey>>],
                 !.availableTiles =
                    IF ~isFixed THEN MapSet(@, placement.tileId, available - 1) ELSE @,
                 !.occupiedCells = @ \cup {placement.cell},
                 !.connectivity = UnionFindAdd(@, placement.cell)]]

\* applyPlacement with the count lowered for fixed placements too
applyPlacementSpendsFixed(s, placement, isFixed) ==
  LET key == placementKey(placement)
      vKey == variantKey(placement.tileId, placement.rotation, placement.flipped,
                         placement.orientation)
      available == getRemainingCount(s, placement.tileId)
  IN  IF key \notin DOMAIN s.domains \/ vKey \notin Range(s.domains[key])
      THEN [ok |-> FALSE, state |-> s]
      ELSE IF available <= 0 /\ ~isFixed
      THEN [ok |-> FALSE, state |-> s]
      ELSE [ok |-> TRUE,
            state |->
              [s EXCEPT
                 !.placements = placementsSet(@, placement),
                 !.domains = [@ EXCEPT ![key] = <<vKey>>],
                 !.availableTiles = MapSet(@, placement.tileId, available - 1),
                 !.occupiedCells = @ \cup {placement.cell},
                 !.connectivity = UnionFindAdd(@, placement.cell)]]

\* The outcome of applyPlacement: what it returned and the state it left
applyPlacement(s, placement, isFixed) ==
  LET key == placementKey(placement)
      vKey == variantKey(placement.tileId, placement.rotation, placement.flipped,
                         placement.orientation)
      available == getRemainingCount(s, placement.tileId)
  IN  IF key \notin DOMAIN s.domains \/ vKey \notin Range(s.domains[key])
      THEN [ok |-> FALSE, state |-> s]
      ELSE IF available <= 0 /\ ~isFixed
      THEN [ok |-> FALSE, state |-> s]
      ELSE [ok |-> TRUE,
            state |->
              [s EXCEPT
                 !.placements = placementsSet(@, placement),
                 !.domains = [@ EXCEPT ![key] = <<vKey>>],
                 !.availableTiles =
                    IF ~isFixed THEN MapSet(@, placement.tileId, available - 1) ELSE @,
                 !.occupiedCells = @ \cup {placement.cell},
                 !.connectivity = UnionFindAdd(@, placement.cell)]]

\* The constructor's last loop: every fixed placement applied as fixed, the
\* result of applyPlacement ignored
RECURSIVE applyFixedPlacements(_, _)
applyFixedPlacements(s, fixedPlacements) ==
  IF fixedPlacements = <<>> THEN s
  ELSE applyFixedPlacements(applyPlacement(s, Head(fixedPlacements), TRUE).state,
                            Tail(fixedPlacements))

createSolverState(pz) ==
  applyFixedPlacements(
    [domains |-> initializeDomains(pz),
     slots |-> SlotKeys(pz.gridBounds),
     placements |-> <<>>,
     availableTiles |-> initialAvailableTiles(pz.tiles),
     bounds |-> pz.gridBounds,
     connectivity |-> NewUnionFind,
     occupiedCells |-> {}],
    pz.fixedPlacements)

RECURSIVE SumOver(_, _)
SumOver(f, keys) ==
  IF keys = {} THEN 0
  ELSE LET k == CHOOSE x \in keys : TRUE
       IN  f[k] + SumOver(f, keys \ {k})

getTotalRemainingTiles(s) == SumOver(s.availableTiles, DOMAIN s.availableTiles)

isSolved(s) == getTotalRemainingTiles(s) = 0

\* new Map / new Set copies of every field: the copy holds the same values
clone(s) ==
  [domains |-> [key \in DOMAIN s.domains |-> s.domains[key]],
   slots |-> s.slots,
   placements |-> s.placements,
   availableTiles |-> [t \in DOMAIN s.availableTiles |-> s.availableTiles[t]],
   bounds |-> s.bounds,
   connectivity |-> [parent |-> s.connectivity.parent, rank |-> s.connectivity.rank,
                     componentCount |-> s.connectivity.componentCount],
   occupiedCells |-> s.occupiedCells]

\* The fields a clone holds by reference to the storage of the state it was
\* copied from (bounds is shared, every Map and Set is copied)
cloneSharesConnectivity(s) == {"bounds", "connectivity"}

cloneShares(s) == {"bounds"}

\* What a state holds once its clone has become written: the writes show in
\* the fields the two hold in common
afterWrites(s, written, shares) ==
  [f \in DOMAIN s |-> IF f \in shares THEN written[f] ELSE s[f]]

toSolution(s) == [placements |-> s.placements]

isFullyConnected(s) ==
  IF Cardinality(s.occupiedCells) <= 1 THEN TRUE
  ELSE s.connectivity.componentCount = 1

----------------------------------------------------------------------------
(* Backtracking search: src/src/puzzle/solver/Backtracker.ts *)

\* Index in state.slots of the slot selectMRV returns, 0 for null: the first
\* unplaced slot with a non-empty domain that no such slot before it
\* undercuts and no such slot at all beats
selectMRV(s) ==
  LET open == {k \in 1..Len(s.slots) :
                 /\ ~placementsHas(s, s.slots[k])
                 /\ Len(s.domains[s.slots[k]]) # 0}
  IN  IF open = {} THEN 0
      ELSE CHOOSE k \in open :
             /\ \A j \in open : Len(s.domains[s.slots[j]]) >= Len(s.domains[s.slots[k]])
             /\ \A j \in open : j < k =>
                   Len(s.domains[s.slots[j]]) > Len(s.domains[s.slots[k]])

variantToPlacement(vKey, cell, orientation) ==
  [cell |-> cell, orientation |-> orientation, tileId |-> vKey.tileId,
   rotation |-> vKey.rotation, flipped |-> vKey.flipped]

\* Date.now() - ctx.startTime > ctx.options.timeoutMs, never for timeoutMs 0
isTimedOut(opts, start, clock) ==
  IF opts.timeoutMs = 0 THEN FALSE ELSE clock - start > opts.timeoutMs

\* shouldStop that looks at the deadline only
shouldStopOnDeadlineOnly(opts, start, clock, sols) ==
  isTimedOut(opts, start, clock)

shouldStop(opts, start, clock, sols) ==
  \/ isTimedOut(opts, start, clock)
  \/ Len(sols) >= opts.maxSolutions
  \/ (opts.mode = "first" /\ Len(sols) > 0)

\* orderVariants as a shuffle seeded by the clock
orderVariantsByClock(variants, s) ==
  IF now % 2 = 0 THEN variants
  ELSE [i \in 1..Len(variants) |-> variants[Len(variants) + 1 - i]]

\* variants.sort by remaining count, larger first; the sort is stable, so
\* variants of equal count keep their order
RECURSIVE orderVariants(_, _)
orderVariants(variants, s) ==
  IF variants = <<>> THEN <<>>
  ELSE LET top == CHOOSE c \in {getRemainingCount(s, variants[i].tileId) :
                                  i \in 1..Len(variants)} :
                    \A i \in 1..Len(variants) :
                      getRemainingCount(s, variants[i].tileId) <= c
       IN  SelectSeq(variants, LAMBDA v : getRemainingCount(s, v.tileId) = top)
             \o orderVariants(SelectSeq(variants,
                                LAMBDA v : getRemainingCount(s, v.tileId) # top), s)

\* defaultOptions of solve; given holds the fields the caller passed
defaultOptions(given) ==
  [mode |-> IF "mode" \in DOMAIN given THEN given.mode ELSE "first",
   maxSolutions |-> IF "maxSolutions" \in DOMAIN given THEN given.maxSolutions
                    ELSE IF "mode" \in DOMAIN given /\ given.mode = "all" THEN 1000
                    ELSE 1,
   timeoutMs |-> IF "timeoutMs" \in DOMAIN given THEN given.timeoutMs ELSE 30000]

\* A search() call that has not run yet, and one that is in its for loop
EnterFrame(s) == [state |-> s, phase |-> "enter", slot |-> 0, orderedVariants |-> <<>>, i |-> 0]

LoopFrame(s, slot) ==
  [state |-> s, phase |-> "loop", slot |-> slot,
   orderedVariants |-> orderVariants(s.domains[s.slots[slot]], s), i |-> 1]

----------------------------------------------------------------------------
(* Puzzle derivation: src/src/puzzle/generator/PuzzleDeriver.ts *)

Min(a, b) == IF a < b THEN a ELSE b
Max(a, b) == IF a > b THEN a ELSE b

SetMin(S) == CHOOSE m \in S : \A o \in S : m <= o
SetMax(S) == CHOOSE m \in S : \A o \in S : m >= o

computeBounds(placements) ==
  IF Len(placements) = 0 THEN [min |-> <<0, 0, 0>>, max |-> <<0, 0, 0>>]
  ELSE LET coord(c) == {placements[i].cell[c] : i \in 1..Len(placements)}
       IN  [min |-> <<Max(0, SetMin(coord(1)) - 1), Max(0, SetMin(coord(2))),
                      Max(0, SetMin(coord(3)) - 1)>>,
            max |-> <<Min(9, SetMax(coord(1)) + 1), Min(4, SetMax(coord(2)) + 1),
                      Min(9, SetMax(coord(3)) + 1)>>]

\* One spec per tile id, in the order of the first placement of each id
placementsToTileSpecs(placements) ==
  LET firsts == SelectSeq([i \in 1..Len(placements) |-> i],
                          LAMBDA i : \A j \in 1..(i - 1) :
                                       placements[j].tileId # placements[i].tileId)
  IN  [k \in 1..Len(firsts) |->
         [tileId |-> placements[firsts[k]].tileId,
          count |-> Cardinality({j \in 1..Len(placements) :
                                   placements[j].tileId = placements[firsts[k]].tileId})]]

\* Index of the placement selectHintTile returns, 0 for null: the first one
\* nearest the centre; the distances are compared multiplied by the length
selectHintTile(placements) ==
  IF Len(placements) = 0 THEN 0
  ELSE LET n == Len(placements)
           sumX == SeqSum([i \in 1..n |-> placements[i].cell[1]])
           sumZ == SeqSum([i \in 1..n |-> placements[i].cell[3]])
           dist(i) == Abs(n * placements[i].cell[1] - sumX)
                        + Abs(n * placements[i].cell[3] - sumZ)
       IN  CHOOSE i \in 1..n :
             /\ \A j \in 1..n : dist(j) >= dist(i)
             /\ \A j \in 1..(i - 1) : dist(j) > dist(i)

deriveArrangePuzzle(solution, includeHint) ==
  LET hint == IF includeHint THEN selectHintTile(solution.placements) ELSE 0
  IN  [mode |-> "arrange",
       tiles |-> placementsToTileSpecs(solution.placements),
       fixedPlacements |-> IF hint # 0 THEN <<solution.placements[hint]>> ELSE <<>>,
       gridBounds |-> computeBounds(solution.placements)]

----------------------------------------------------------------------------
(* Solution check of the generator: src/src/puzzle/generator/SolutionBuilder.ts *)

placementToPlacedTile(p) ==
  [definition |-> p.tileId, position |-> p.cell, rotation |-> p.rotation,
   flipped |-> p.flipped, orientation |-> p.orientation]

\* validateSolution that accepts every list of known tiles
validateSolutionKnownTiles(placements) ==
  \A i \in 1..Len(placements) : placements[i].tileId \in TileIds

\* false when a tile id is unknown (the lookup throws), else the validator's verdict
validateSolution(placements) ==
  IF \E i \in 1..Len(placements) : placements[i].tileId \notin TileIds THEN FALSE
  ELSE validateConnections([i \in 1..Len(placements) |->
                              placementToPlacedTile(placements[i])]).valid

----------------------------------------------------------------------------
(* Solution builder: src/src/puzzle/generator/SolutionBuilder.ts            *)
(* Every shuffle and random pick is a free choice, so a finder is the set   *)
(* of the tiles it can return (empty where it returns null) and a builder   *)
(* the set of its possible outcomes                                         *)

EdgeIndex(edge) == CHOOSE k \in 0..3 : EDGES[k + 1] = edge

getOriginalEdge(worldEdge, rotation) ==
  LET steps == (((rotation \div 90) % 4) + 4) % 4
  IN  EDGES[((EdgeIndex(worldEdge) + steps) % 4) + 1]

getWorldEdgeConnector(config, worldEdge, rotation) ==
  config[getOriginalEdge(worldEdge, rotation)]

getMirrorPos(pos) ==
  CASE pos = "left" -> "right" [] pos = "right" -> "left" [] OTHER -> "middle"

getWorldEdgeConnectorWithFlip(config, worldEdge, rotation, flipped) ==
  IF ~flipped THEN getWorldEdgeConnector(config, worldEdge, rotation)
  ELSE LET effectiveWorldEdge ==
             CASE worldEdge = "top" -> "bottom"
               [] worldEdge = "bottom" -> "top"
               [] OTHER -> worldEdge
           pos == getWorldEdgeConnector(config, effectiveWorldEdge, rotation)
       IN  IF pos = "none" THEN "none" ELSE getMirrorPos(pos)

\* Every (tile, rotation, flipped) the loops of a finder can try
TileChoices == [tileId : TileIds, rotation : Range(ROTATIONS), flipped : BOOLEAN]

\* Every (tile, rotation, flipped) a finder's three loops pass through
\* whose connectors lie on exactly the world edges given
TilesWithEdges(edges) ==
  {d \in TileChoices :
     \A worldEdge \in Range(EDGES) :
       (getWorldEdgeConnectorWithFlip(getTileConfig(d.tileId), worldEdge,
                                      d.rotation, d.flipped) # "none")
         <=> (worldEdge \in edges)}

\* The finders look tiles up by world edges only, so the tiles of each set of
\* edges are computed once
tilesByEdges == [edges \in SUBSET Range(EDGES) |-> TilesWithEdges(edges)]

WorldPos(c, worldEdge) ==
  getWorldEdgeConnectorWithFlip(getTileConfig(c.tileId), worldEdge, c.rotation, c.flipped)

\* edge1Pos, edge2Pos "none": any position.  A tile passes the checks when it
\* has connectors on both edges, at the positions asked, and on no other
\* edge
findTileWithTwoConnectors(worldEdge1, edge1Pos, worldEdge2, edge2Pos) ==
  {[tileId |-> c.tileId, rotation |-> c.rotation, flipped |-> c.flipped,
    pos1 |-> WorldPos(c, worldEdge1), pos2 |-> WorldPos(c, worldEdge2)] :
     c \in {d \in tilesByEdges[{worldEdge1, worldEdge2}] :
              /\ (edge1Pos # "none" => WorldPos(d, worldEdge1) = edge1Pos)
              /\ (edge2Pos # "none" => WorldPos(d, worldEdge2) = edge2Pos)}}

\* outgoingWorldEdge "none": no outgoing edge; then outgoingPos is "none"
findTileWithIncoming(incomingWorldEdge, incomingPos, outgoingWorldEdge) ==
  {[tileId |-> c.tileId, rotation |-> c.rotation, flipped |-> c.flipped,
    outgoingPos |-> IF outgoingWorldEdge = "none" THEN "none"
                    ELSE WorldPos(c, outgoingWorldEdge)] :
     c \in {d \in tilesByEdges[{incomingWorldEdge, outgoingWorldEdge} \ {"none"}] :
              WorldPos(d, incomingWorldEdge) = incomingPos}}

findStartTile(outgoingWorldEdge) ==
  {[tileId |-> c.tileId, rotation |-> c.rotation, flipped |-> c.flipped,
    outgoingPos |-> WorldPos(c, outgoingWorldEdge)] :
     c \in tilesByEdges[{outgoingWorldEdge}]}

\* What a builder returns: null, or a list of placements
NullBuild == [built |-> FALSE, placements |-> <<>>]
Built(placements) == [built |-> TRUE, placements |-> placements]

FlatPlacement(x, z, tile) ==
  [cell |-> <<x, 0, z>>, orientation |-> "flat", tileId |-> tile.tileId,
   rotation |-> tile.rotation, flipped |-> tile.flipped]

\* The loop of buildLine from pass i on, the placements so far and the last
\* outgoing position given
RECURSIVE buildLineFrom(_, _, _, _, _, _)
buildLineFrom(i, length, startX, startZ, placements, lastOutgoingPos) ==
  IF i = length THEN {Built(placements)}
  ELSE IF startX + i < 0 \/ startX + i > 9 THEN {NullBuild}
  ELSE LET candidates == IF i = 0 THEN findStartTile("right")
                         ELSE IF i = length - 1
                         THEN findTileWithIncoming("left", getMirrorPos(lastOutgoingPos), "none")
                         ELSE findTileWithIncoming("left", getMirrorPos(lastOutgoingPos), "right")
       IN  IF candidates = {} THEN {NullBuild}
           ELSE UNION {buildLineFrom(i + 1, length, startX, startZ,
                                     Append(placements, FlatPlacement(startX + i, startZ, t)),
                                     t.outgoingPos) : t \in candidates}

buildLine(length, startX, startZ) ==
  IF length < 2 THEN {NullBuild}
  ELSE buildLineFrom(0, length, startX, startZ, <<>>, "none")

RECURSIVE buildVerticalLineFrom(_, _, _, _, _, _)
buildVerticalLineFrom(i, length, startX, startZ, placements, lastOutgoingPos) ==
  IF i = length THEN {Built(placements)}
  ELSE IF startZ + i < 0 \/ startZ + i > 9 THEN {NullBuild}
  ELSE LET candidates == IF i = 0 THEN findStartTile("bottom")
                         ELSE IF i = length - 1
                         THEN findTileWithIncoming("top", getMirrorPos(lastOutgoingPos), "none")
                         ELSE findTileWithIncoming("top", getMirrorPos(lastOutgoingPos), "bottom")
       IN  IF candidates = {} THEN {NullBuild}
           ELSE UNION {buildVerticalLineFrom(i + 1, length, startX, startZ,
                         Append(placements, FlatPlacement(startX, startZ + i, t)),
                         t.outgoingPos) : t \in candidates}

buildVerticalLine(length, startX, startZ) ==
  IF length < 2 THEN {NullBuild}
  ELSE buildVerticalLineFrom(0, length, startX, startZ, <<>>, "none")

PathStep(x, z, inEdge, outEdge) == [x |-> x, z |-> z, inEdge |-> inEdge, outEdge |-> outEdge]

\* The clockwise path of buildRectangle: top edge, right edge, bottom-right
\* corner, bottom edge, bottom-left corner, left edge
rectanglePath(width, height, startX, startZ) ==
  [i \in 1..width |->
     IF i = 1 THEN PathStep(startX, startZ, "bottom", "right")
     ELSE IF i = width THEN PathStep(startX + i - 1, startZ, "left", "bottom")
     ELSE PathStep(startX + i - 1, startZ, "left", "right")]
  \o [i \in 1..(height - 2) |-> PathStep(startX + width - 1, startZ + i, "top", "bottom")]
  \o (IF height > 1
      THEN <<PathStep(startX + width - 1, startZ + height - 1, "top", "left")>>
      ELSE <<>>)
  \o [k \in 1..(width - 2) |->
        PathStep(startX + width - 1 - k, startZ + height - 1, "right", "left")]
  \o (IF width > 1 /\ height > 1
      THEN <<PathStep(startX, startZ + height - 1, "right", "top")>>
      ELSE <<>>)
  \o [k \in 1..(height - 2) |-> PathStep(startX, startZ + height - 1 - k, "bottom", "top")]

\* The tile loop of buildRectangle from step i (1-based) on, then the check
\* that the loop closes on the first tile
RECURSIVE buildRectangleFrom(_, _, _, _)
buildRectangleFrom(i, path, placements, outgoingPositions) ==
  IF i > Len(path)
  THEN LET firstInPos == getMirrorPos(outgoingPositions[Len(outgoingPositions)])
           firstActualInPos ==
             getWorldEdgeConnectorWithFlip(getTileConfig(placements[1].tileId),
               path[1].inEdge, placements[1].rotation, placements[1].flipped)
       IN  IF firstActualInPos # firstInPos THEN {NullBuild} ELSE {Built(placements)}
  ELSE LET inPos == IF i > 1 THEN getMirrorPos(outgoingPositions[i - 1]) ELSE "none"
           candidates == findTileWithTwoConnectors(path[i].inEdge, inPos,
                                                   path[i].outEdge, "none")
       IN  IF candidates = {} THEN {NullBuild}
           ELSE UNION {buildRectangleFrom(i + 1, path,
                         Append(placements, FlatPlacement(path[i].x, path[i].z, t)),
                         Append(outgoingPositions, t.pos2)) : t \in candidates}

buildRectangle(width, height, startX, startZ) ==
  IF width < 2 \/ height < 2 THEN {NullBuild}
  ELSE IF startX + width - 1 > 9 \/ startZ + height - 1 > 9 THEN {NullBuild}
  ELSE IF startX < 0 \/ startZ < 0 THEN {NullBuild}
  ELSE LET path == rectanglePath(width, height, startX, startZ)
       IN  IF Len(path) = 0 THEN {NullBuild}
           ELSE buildRectangleFrom(1, path, <<>>, <<>>)

dirToOutgoing(dir) ==
  CASE dir = "right" -> "right" [] dir = "left" -> "left"
    [] dir = "down" -> "bottom" [] OTHER -> "top"

dirToIncoming(dir) ==
  CASE dir = "right" -> "left" [] dir = "left" -> "right"
    [] dir = "down" -> "top" [] OTHER -> "bottom"

\* First pass of buildSnake from pass i on: the walks it can take, each a
\* path or, where the walk is stuck or leaves the grid, null
RECURSIVE snakePaths(_, _, _, _, _, _, _)
snakePaths(i, length, x, z, lastDir, occupied, path) ==
  IF i = length THEN {[ok |-> TRUE, path |-> path]}
  ELSE IF x < 0 \/ x > 9 \/ z < 0 \/ z > 9 THEN {[ok |-> FALSE, path |-> <<>>]}
  ELSE IF <<x, z>> \in occupied THEN {[ok |-> FALSE, path |-> <<>>]}
  ELSE LET occ == occupied \cup {<<x, z>>}
           dirs == {d \in {"right", "left", "down", "up"} :
                      \/ d = "right" /\ lastDir # "left" /\ x + 1 <= 9 /\ <<x + 1, z>> \notin occ
                      \/ d = "left" /\ lastDir # "right" /\ x - 1 >= 0 /\ <<x - 1, z>> \notin occ
                      \/ d = "down" /\ lastDir # "up" /\ z + 1 <= 9 /\ <<x, z + 1>> \notin occ
                      \/ d = "up" /\ lastDir # "down" /\ z - 1 >= 0 /\ <<x, z - 1>> \notin occ}
           step(toDir) == [x |-> x, z |-> z, fromDir |-> lastDir, toDir |-> toDir]
       IN  IF i < length - 1
           THEN IF dirs = {} THEN {[ok |-> FALSE, path |-> <<>>]}
                ELSE UNION {snakePaths(i + 1, length,
                              x + (IF d = "right" THEN 1 ELSE IF d = "left" THEN -1 ELSE 0),
                              z + (IF d = "down" THEN 1 ELSE IF d = "up" THEN -1 ELSE 0),
                              d, occ, Append(path, step(d))) : d \in dirs}
           ELSE snakePaths(i + 1, length, x, z, lastDir, occ, Append(path, step("none")))

\* Second pass of buildSnake from step i (1-based) on
RECURSIVE buildSnakeFrom(_, _, _, _)
buildSnakeFrom(i, path, placements, lastOutgoingPos) ==
  IF i > Len(path) THEN {Built(placements)}
  ELSE IF i = 1
  THEN IF path[i].toDir = "none" THEN {NullBuild}
       ELSE LET candidates == findStartTile(dirToOutgoing(path[i].toDir))
            IN  IF candidates = {} THEN {NullBuild}
                ELSE UNION {buildSnakeFrom(i + 1, path,
                              Append(placements, FlatPlacement(path[i].x, path[i].z, t)),
                              t.outgoingPos) : t \in candidates}
  ELSE IF path[i].fromDir = "none" \/ lastOutgoingPos = "none" THEN {NullBuild}
  ELSE LET outEdge == IF path[i].toDir # "none" THEN dirToOutgoing(path[i].toDir)
                      ELSE "none"
           candidates == findTileWithIncoming(dirToIncoming(path[i].fromDir),
                                              getMirrorPos(lastOutgoingPos), outEdge)
       IN  IF candidates = {} THEN {NullBuild}
           ELSE UNION {buildSnakeFrom(i + 1, path,
                         Append(placements, FlatPlacement(path[i].x, path[i].z, t)),
                         t.outgoingPos) : t \in candidates}

buildSnake(length, startX, startZ) ==
  IF length < 2 THEN {NullBuild}
  ELSE UNION {IF w.ok THEN buildSnakeFrom(1, w.path, <<>>, "none") ELSE {NullBuild} :
                w \in snakePaths(0, length, startX, startZ, "none", {}, <<>>)}

\* The options buildSolution collects, in the order it pushes them
RECURSIVE snakeOptions(_, _)
snakeOptions(lo, hi) ==
  IF lo > hi THEN <<>>
  ELSE <<[type |-> "snake", params |-> <<lo>>], [type |-> "snake", params |-> <<lo>>]>>
         \o snakeOptions(lo + 1, hi)

\* lineOptions with the test of the board's edge turned round
lineOptionsOffBoard(type, start, lo, hi) ==
  SelectSeq([k \in 1..LoopCount(lo, hi) |-> [type |-> type, params |-> <<lo + k - 1>>]],
            LAMBDA o : start + o.params[1] - 1 > 9)

lineOptions(type, start, lo, hi) ==
  SelectSeq([k \in 1..LoopCount(lo, hi) |-> [type |-> type, params |-> <<lo + k - 1>>]],
            LAMBDA o : start + o.params[1] - 1 <= 9)

rectOptions(minSize, maxSize, startX, startZ) ==
  SelectSeq([k \in 1..25 |-> [type |-> "rect",
                              params |-> <<2 + ((k - 1) \div 5), 2 + ((k - 1) % 5)>>]],
            LAMBDA o : /\ 2 * o.params[1] + 2 * o.params[2] - 4 >= minSize
                       /\ 2 * o.params[1] + 2 * o.params[2] - 4 <= maxSize
                       /\ startX + o.params[1] - 1 <= 9
                       /\ startZ + o.params[2] - 1 <= 9)

buildOptions(config, startX, startZ) ==
  snakeOptions(config.size.min, config.size.max)
  \o lineOptions("line", startX, config.size.min, Min(config.size.max, 10))
  \o lineOptions("vline", startZ, config.size.min, Min(config.size.max, 10))
  \o rectOptions(config.size.min, config.size.max, startX, startZ)

\* What building one option can return
buildOption(opt, startX, startZ) ==
  CASE opt.type = "line" -> buildLine(opt.params[1], startX, startZ)
    [] opt.type = "vline" -> buildVerticalLine(opt.params[1], startX, startZ)
    [] opt.type = "rect" -> buildRectangle(opt.params[1], opt.params[2], startX, startZ)
    [] opt.type = "snake" -> buildSnake(opt.params[1], startX, startZ)

----------------------------------------------------------------------------
(* Values of the variables a run does not use *)

vars == <<tiles, validation, lookup, found, puzzle, state, call,
          options, pc, stack, solutions, trace, now, startTime, abandoned, result,
          runs, build, built, canon, catalog, records, enumeration,
          propagation, walk, generation, geometry, game, unionFind>>

IdleValidator == tiles = <<>> /\ validation = <<>>
IdleCompat == lookup = <<>> /\ found = <<>>
IdleState == state = <<>> /\ call = <<>>
IdleSolve ==
  /\ options = <<>> /\ pc = "idle" /\ stack = <<>> /\ solutions = <<>>
  /\ trace = <<>> /\ now = 0 /\ startTime = 0 /\ abandoned = FALSE /\ result = <<>>
  /\ runs = <<>>
IdleBuild == build = <<>> /\ built = <<>>
IdleTiles == canon = <<>> /\ catalog = <<>> /\ records = <<>>
IdleRest == geometry = <<>> /\ game = <<>> /\ unionFind = <<>>
IdleEnumeration == enumeration = <<>>
IdlePropagation == propagation = <<>>
IdleWalk == walk = <<>>
IdleGeneration == generation = <<>>

----------------------------------------------------------------------------
(* The validator run: a tile is added to the list and the list validated,  *)
(* as the game does after each placement                                   *)

\* Cells of placed tiles: x in 0..MaxCellX, y = 0, z = 0
MaxCellX == 1
\* Longest tile list validated
MaxTiles == 3

\* tile_0 (one Left connector) and tile_1 (one Middle connector)
BoardTileIds == {0, 1}

PlacedTiles ==
  [definition : BoardTileIds,
   position : {<<x, 0, 0>> : x \in 0..MaxCellX},
   rotation : Range(ROTATIONS),
   flipped : BOOLEAN,
   orientation : Range(ORIENTATIONS)]

SlotOf(t) == <<t.position, t.orientation>>

InitValidator ==
  /\ tiles = <<>>
  /\ validation = validateConnections(<<>>)
  /\ IdleCompat /\ puzzle = <<>> /\ IdleState /\ IdleSolve /\ IdleBuild
  /\ IdleTiles /\ IdleEnumeration
  /\ IdlePropagation /\ IdleWalk /\ IdleGeneration
  /\ IdleRest

ValidateConnections ==
  /\ Len(tiles) < MaxTiles
  /\ \E t \in PlacedTiles :
       /\ \A i \in 1..Len(tiles) : SlotOf(tiles[i]) # SlotOf(t)
       /\ tiles' = Append(tiles, t)
       /\ validation' = validateConnections(tiles')
  /\ UNCHANGED <<restVars, generatorVars, tileVars, enumeration, compatVars, puzzle, stateVars, solveVars, buildVars>>

NextValidator == ValidateConnections

SpecValidator == InitValidator /\ [][NextValidator]_vars

\* Connectors of the list at the world position of c that belong to another tile
Partners(list, c) ==
  {d \in UNION {getTileConnectors(list, i) : i \in 1..Len(list)} :
     d.tile # c.tile /\ d.w = c.w}

\* Tiles i and j are linked when a connector of one lies on a connector of
\* the other; the list is one component when every tile is linked, through
\* any number of tiles, to the first
RECURSIVE LinkedTo(_, _)
LinkedTo(list, seen) ==
  LET more == seen \cup {j \in 1..Len(list) :
                           \E i \in seen : \E c \in getTileConnectors(list, i) :
                             \E d \in Partners(list, c) : d.tile = j}
  IN  IF more = seen THEN seen ELSE LinkedTo(list, more)

OneComponent(list) == Len(list) = 0 \/ LinkedTo(list, {1}) = 1..Len(list)

\* C2: validateConnections reports valid exactly when every connector of the
\* list has exactly one partner (a connector of another tile at the same
\* world position) and the tiles form one connected component
C2_ValidIffOnePartnerEach ==
  validation.valid <=>
    /\ \A i \in 1..Len(tiles) : \A c \in getTileConnectors(tiles, i) :
         Cardinality(Partners(tiles, c)) = 1
    /\ OneComponent(tiles)

----------------------------------------------------------------------------
(* The compatibility lookups: a pair of variants and a direction are chosen *)
(* and the index is asked both ways                                         *)

\* tile_1 (one Middle connector) and tile_19 (Middle-Middle straight)
CompatTileIds == {1, 19}

CompatVariants == UNION {Range(getTileVariants(t)) : t \in CompatTileIds}

InitCompat ==
  /\ lookup \in [a : CompatVariants, b : CompatVariants, direction : Directions]
  /\ found = [done |-> FALSE, ab |-> FALSE, ba |-> FALSE]
  /\ IdleValidator /\ puzzle = <<>> /\ IdleState /\ IdleSolve /\ IdleBuild
  /\ IdleTiles /\ IdleEnumeration
  /\ IdlePropagation /\ IdleWalk /\ IdleGeneration
  /\ IdleRest

\* B in getCompatibleVariants(A, D) and A in getCompatibleVariants(B, opposite D)
GetCompatibleVariants ==
  /\ ~found.done
  /\ found' = [done |-> TRUE,
               ab |-> lookup.b \in getCompatibleVariants(lookup.a, lookup.direction),
               ba |-> lookup.a \in getCompatibleVariants(lookup.b,
                                     OPPOSITE_DIRECTION(lookup.direction))]
  /\ UNCHANGED <<restVars, generatorVars, tileVars, enumeration, lookup, validatorVars, puzzle, stateVars, solveVars, buildVars>>

NextCompat == GetCompatibleVariants

SpecCompat == InitCompat /\ [][NextCompat]_vars

\* C4: B is compatible with A in direction D exactly when A is compatible
\* with B in the opposite direction
C4_CompatibilitySymmetric == found.done => (found.ab <=> found.ba)

\* Offsets of the connectors of a variant that lie on the face of its cell
\* toward a direction
OnFace(variant, direction) ==
  LET v == DIRECTION_VECTORS(direction)
  IN  {c.worldOffset : c \in {k \in variantConnectors(variant) :
         \A i \in 1..3 : /\ (v[i] > 0 => k.worldOffset[i] = 100)
                          /\ (v[i] < 0 => k.worldOffset[i] = 0)}}

\* The same offsets seen from the neighbouring cell one step back
Shifted(offsets, direction) ==
  {[i \in 1..3 |-> o[i] + DIRECTION_VECTORS(direction)[i]] : o \in offsets}

\* C5: B is compatible with A in direction D exactly when neither has a
\* connector on the shared face, or the connectors of A on its face toward D
\* and those of B, one cell away in D, on its opposite face are at the same
\* positions, one for one
C5_CompatibleIffFacesCoincide ==
  found.done =>
    (found.ab <=>
       OnFace(lookup.a, lookup.direction) =
         Shifted(OnFace(lookup.b, OPPOSITE_DIRECTION(lookup.direction)), lookup.direction))

----------------------------------------------------------------------------
(* The solver state under calls of applyPlacement *)

\* Longest run of applyPlacement calls on one state
MaxCalls == 2

OneCell == [min |-> <<0, 0, 0>>, max |-> <<0, 0, 0>>]
TwoCells == [min |-> <<0, 0, 0>>, max |-> <<1, 0, 0>>]

Endcap(x, orientation, rotation) ==
  [cell |-> <<x, 0, 0>>, orientation |-> orientation, tileId |-> 1,
   rotation |-> rotation, flipped |-> FALSE]

\* A straight in the rotation that generateTileVariants merges into rotation 0
TurnedStraight ==
  [cell |-> <<0, 0, 0>>, orientation |-> "flat", tileId |-> 19,
   rotation |-> 180, flipped |-> FALSE]

\* One cell; inventories with a spent shape, one copy and two copies, and
\* (as deriveCompletePuzzle leaves it) without the shape of the fixed tile;
\* with and without a fixed end cap or straight.  Two cells in a row with a
\* fixed end cap in the first that opens toward the second
ApiPuzzles ==
  {[mode |-> "complete", tiles |-> ts, fixedPlacements |-> fp, gridBounds |-> OneCell] :
     ts \in {<<[tileId |-> 1, count |-> 1], [tileId |-> 19, count |-> 0]>>,
             <<[tileId |-> 1, count |-> 2]>>,
             <<[tileId |-> 19, count |-> 1]>>},
     fp \in {<<>>, <<Endcap(0, "flat", 180)>>, <<TurnedStraight>>}}
  \cup {[mode |-> "complete", tiles |-> <<[tileId |-> 1, count |-> 1]>>,
         fixedPlacements |-> <<Endcap(0, "flat", 180)>>, gridBounds |-> TwoCells]}

\* Arguments of the calls: in and out of the bounds, kept and dropped
\* variants, shapes in and out of the inventory
ApiPlacements ==
  [cell : {<<0, 0, 0>>, <<1, 0, 0>>},
   orientation : {"flat", "vertical-x"},
   tileId : {1, 19, 6},
   rotation : {0, 90},
   flipped : BOOLEAN]

InitState ==
  /\ puzzle \in ApiPuzzles
  /\ state = createSolverState(puzzle)
  /\ call = [n |-> 0, placement |-> Endcap(0, "flat", 0), isFixed |-> FALSE,
             ret |-> FALSE, before |-> state]
  /\ IdleValidator /\ IdleCompat /\ IdleSolve /\ IdleBuild
  /\ IdleTiles /\ IdleEnumeration
  /\ IdlePropagation /\ IdleWalk /\ IdleGeneration
  /\ IdleRest

ApplyPlacement ==
  /\ call.n < MaxCalls
  /\ \E placement \in ApiPlacements, isFixed \in BOOLEAN :
       LET r == applyPlacement(state, placement, isFixed)
       IN  /\ state' = r.state
           /\ call' = [n |-> call.n + 1, placement |-> placement, isFixed |-> isFixed,
                       ret |-> r.ok, before |-> state]
  /\ UNCHANGED <<restVars, generatorVars, tileVars, enumeration, validatorVars, compatVars, puzzle, solveVars, buildVars>>

NextState == ApplyPlacement

SpecState == InitState /\ [][NextState]_vars

\* The variant of the last call lies in the domain of its slot in state s
InDomain(s, placement) ==
  /\ placementKey(placement) \in DOMAIN s.domains
  /\ variantKey(placement.tileId, placement.rotation, placement.flipped,
                placement.orientation) \in Range(s.domains[placementKey(placement)])

CountBefore ==
  IF call.placement.tileId \in DOMAIN call.before.availableTiles
  THEN call.before.availableTiles[call.placement.tileId] ELSE 0

\* C9: a call of applyPlacement whose variant is not in the slot's domain, or
\* that is not fixed while the shape's count is zero, returns false and
\* leaves domains, placements, inventory, occupied cells and connectivity
\* as they were
C9_RefusedPlacementChangesNothing ==
  (/\ call.n > 0
   /\ \/ ~InDomain(call.before, call.placement)
      \/ (~call.isFixed /\ CountBefore = 0))
  => (~call.ret /\ state = call.before)

\* A second call, not fixed, of a variant of the domain whose shape was spent
\* by the first call, is refused
C9_Witness ==
  /\ call.n = 2
  /\ InDomain(call.before, call.placement)
  /\ ~call.isFixed
  /\ CountBefore = 0
  /\ Len(call.before.placements) > 0
  /\ ~call.ret

\* C10: a successful applyPlacement leaves the slot's domain as exactly the
\* chosen variant, records the placement, lowers the shape's count by one
\* when the placement is not fixed, and changes no other domain, placement
\* or count; no count is ever negative
C10_SuccessfulPlacementEffect ==
  /\ \A t \in DOMAIN state.availableTiles : state.availableTiles[t] >= 0
  /\ (call.n > 0 /\ call.ret) =>
       LET b == call.before
           p == call.placement
           key == placementKey(p)
           vKey == variantKey(p.tileId, p.rotation, p.flipped, p.orientation)
           was == {i \in 1..Len(b.placements) : placementKey(b.placements[i]) = key}
       IN  /\ DOMAIN state.domains = DOMAIN b.domains
           /\ state.domains[key] = <<vKey>>
           /\ \A k \in DOMAIN b.domains \ {key} : state.domains[k] = b.domains[k]
           /\ \E i \in 1..Len(state.placements) : state.placements[i] = p
           /\ Len(state.placements) = Len(b.placements) + (IF was = {} THEN 1 ELSE 0)
           /\ \A i \in 1..Len(b.placements) \ was : state.placements[i] = b.placements[i]
           /\ DOMAIN state.availableTiles = DOMAIN b.availableTiles
           /\ ~call.isFixed => state.availableTiles[p.tileId] = CountBefore - 1
           /\ \A t \in DOMAIN b.availableTiles :
                (t # p.tileId \/ call.isFixed) => state.availableTiles[t] = b.availableTiles[t]

\* A placement that is not fixed takes the last copy of its shape
C10_Witness ==
  /\ call.n > 0
  /\ call.ret
  /\ ~call.isFixed
  /\ CountBefore = 1
  /\ state.availableTiles[call.placement.tileId] = 0

----------------------------------------------------------------------------
(* solve: the search runs one step at a time while the clock advances *)

\* Last instant of the clock
MaxClock == 2

\* Calls of solve in a run
MaxRuns == 2

\* Two end caps facing each other across the edge between cells 0 and 1
TwoCapSolution == [placements |-> <<Endcap(0, "flat", 180), Endcap(1, "flat", 0)>>]

\* Puzzles handed to solve: one end cap for one cell, the two arrange puzzles
\* derived from the two-cap solution, and two malformed puzzles (inverted
\* bounds, a negative count)
SolvePuzzles ==
  {[mode |-> "complete", tiles |-> <<[tileId |-> 1, count |-> 1]>>,
    fixedPlacements |-> <<>>, gridBounds |-> OneCell],
   deriveArrangePuzzle(TwoCapSolution, TRUE),
   deriveArrangePuzzle(TwoCapSolution, FALSE),
   [mode |-> "complete", tiles |-> <<[tileId |-> 1, count |-> 1]>>,
    fixedPlacements |-> <<>>,
    gridBounds |-> [min |-> <<1, 0, 0>>, max |-> <<0, 0, 0>>]],
   [mode |-> "complete",
    tiles |-> <<[tileId |-> 1, count |-> -1], [tileId |-> 19, count |-> 1]>>,
    fixedPlacements |-> <<>>, gridBounds |-> OneCell]}

\* The 1x4 corridor with two end caps (tile_1) and two straights (tile_19)
Corridor ==
  [mode |-> "arrange",
   tiles |-> <<[tileId |-> 1, count |-> 2], [tileId |-> 19, count |-> 2]>>,
   fixedPlacements |-> <<>>,
   gridBounds |-> [min |-> <<0, 0, 0>>, max |-> <<3, 0, 0>>]]

\* Options passed to solve; given lists the fields that are present
SolveOptions ==
  {[given |-> g, mode |-> m, maxSolutions |-> 2, timeoutMs |-> t] :
     g \in {{}, {"mode"}, {"timeoutMs"}, {"mode", "timeoutMs"}, {"maxSolutions", "mode"},
            {"maxSolutions"}},
     m \in {"all"}, t \in {0, 1}}

SolveDefaults(o) ==
  defaultOptions([f \in o.given |-> o[f]])

\* The calls of solve: every puzzle with every options, the corridor only
\* with a count of solutions asked (in mode all the default is 1000)
SolveCalls ==
  {[puzzle |-> pz, options |-> SolveDefaults(o)] : pz \in SolvePuzzles, o \in SolveOptions}
  \cup {[puzzle |-> Corridor, options |-> SolveDefaults(o)] :
          o \in {q \in SolveOptions : "maxSolutions" \in q.given \/ "mode" \notin q.given}}

InitSolve ==
  /\ \E c \in SolveCalls : puzzle = c.puzzle /\ options = c.options
  /\ pc = "search"
  /\ stack = <<EnterFrame(createSolverState(puzzle))>>
  /\ solutions = <<>>
  /\ trace = [nodesExplored |-> 0, propagationCalls |-> 0]
  /\ now = 0
  /\ startTime = 0
  /\ abandoned = FALSE
  /\ result = [solutions |-> <<>>, solutionCount |-> 0, timedOut |-> FALSE]
  /\ runs = <<>>
  /\ IdleValidator /\ IdleCompat /\ IdleState /\ IdleBuild
  /\ IdleTiles /\ IdleEnumeration
  /\ IdlePropagation /\ IdleWalk /\ IdleGeneration
  /\ IdleRest

Top == stack[Len(stack)]
Pop == SubSeq(stack, 1, Len(stack) - 1)

\* search() from its entry to the start of its for loop, or to its return
SearchEnter ==
  /\ pc = "search" /\ stack # <<>> /\ Top.phase = "enter"
  /\ trace' = [trace EXCEPT !.nodesExplored = @ + 1]
  /\ IF shouldStop(options, startTime, now, solutions)
     THEN /\ stack' = Pop
          /\ solutions' = solutions
          /\ abandoned' = (abandoned \/ isTimedOut(options, startTime, now))
     ELSE /\ abandoned' = abandoned
          /\ IF isSolved(Top.state)
             THEN /\ solutions' = Append(solutions, toSolution(Top.state))
                  /\ stack' = Pop
             ELSE LET selection == selectMRV(Top.state)
                  IN  IF selection = 0
                      THEN /\ solutions' =
                                IF getTotalRemainingTiles(Top.state) = 0
                                THEN Append(solutions, toSolution(Top.state))
                                ELSE solutions
                           /\ stack' = Pop
                      ELSE /\ solutions' = solutions
                           /\ stack' = Append(Pop, LoopFrame(Top.state, selection))
  /\ UNCHANGED <<restVars, generatorVars, tileVars, enumeration, validatorVars, compatVars, puzzle, stateVars, buildVars,
                 options, pc, now, startTime, result, runs>>

\* One pass of the for loop of search(), or the end of the loop
SearchLoop ==
  /\ pc = "search" /\ stack # <<>> /\ Top.phase = "loop"
  /\ LET f == Top
         next == [f EXCEPT !.i = @ + 1]
     IN  IF f.i > Len(f.orderedVariants)
         THEN stack' = Pop /\ abandoned' = abandoned
         ELSE IF shouldStop(options, startTime, now, solutions)
         THEN /\ stack' = Pop
              /\ abandoned' = (abandoned \/ isTimedOut(options, startTime, now))
         ELSE LET vKey == f.orderedVariants[f.i]
                  key == f.state.slots[f.slot]
              IN  /\ abandoned' = abandoned
                  /\ IF vKey \notin getVariants
                        \/ getRemainingCount(f.state, vKey.tileId) <= 0
                     THEN stack' = Append(Pop, next)
                     ELSE \E r \in {applyPlacement(clone(f.state),
                                                    variantToPlacement(vKey, key[1], key[2]),
                                                    FALSE)} :
                            \E parent \in {[next EXCEPT !.state =
                                               afterWrites(f.state, r.state,
                                                           cloneShares(f.state))]} :
                              IF ~r.ok THEN stack' = Append(Pop, parent)
                              ELSE stack' = Append(Append(Pop, parent), EnterFrame(r.state))
  /\ UNCHANGED <<restVars, generatorVars, tileVars, enumeration, validatorVars, compatVars, puzzle, stateVars, buildVars,
                 options, pc, solutions, trace, now, startTime, result, runs>>

\* solve returns: the result is built, timedOut read from the clock
Return ==
  /\ pc = "search" /\ stack = <<>>
  /\ result' = [solutions |-> solutions, solutionCount |-> Len(solutions),
                timedOut |-> isTimedOut(options, startTime, now)]
  /\ pc' = "done"
  /\ runs' = Append(runs, [result |-> result', abandoned |-> abandoned])
  /\ UNCHANGED <<restVars, generatorVars, tileVars, enumeration, validatorVars, compatVars, puzzle, stateVars, buildVars,
                 options, stack, solutions, trace, now, startTime, abandoned>>

\* Time passes while solve runs
Tick ==
  /\ pc = "search" /\ now < MaxClock
  /\ now' = now + 1
  /\ UNCHANGED <<restVars, generatorVars, tileVars, enumeration, validatorVars, compatVars, puzzle, stateVars, buildVars,
                 options, pc, stack, solutions, trace, startTime, abandoned, result, runs>>

\* solve is called again with the same puzzle and options
SolveAgain ==
  /\ pc = "done" /\ Len(runs) < MaxRuns
  /\ pc' = "search"
  /\ stack' = <<EnterFrame(createSolverState(puzzle))>>
  /\ solutions' = <<>>
  /\ trace' = [nodesExplored |-> 0, propagationCalls |-> 0]
  /\ startTime' = now
  /\ abandoned' = FALSE
  /\ UNCHANGED <<restVars, generatorVars, tileVars, enumeration, validatorVars, compatVars, puzzle, stateVars, buildVars,
                 options, now, result, runs>>

NextSolve == SearchEnter \/ SearchLoop \/ Return \/ Tick \/ SolveAgain

SpecSolve == InitSolve /\ [][NextSolve]_vars

\* C1: every solution solve returns passes validateConnections
C1_SolutionsAreValid ==
  pc = "done" =>
    \A k \in 1..Len(result.solutions) : validateSolution(result.solutions[k].placements)

\* Placements of a shape in a solution, and the count the puzzle gives it
PlacedOfShape(solution, t) ==
  Cardinality({i \in 1..Len(solution.placements) : solution.placements[i].tileId = t})

InventoryCount(pz, t) ==
  IF \E i \in 1..Len(pz.tiles) : pz.tiles[i].tileId = t
  THEN initialAvailableTiles(pz.tiles)[t] ELSE 0

\* C6: in every solution returned, the placements of each shape are no more
\* than the puzzle's count of the shape, and as many in arrange mode
C6_SolutionsRespectInventory ==
  pc = "done" =>
    \A k \in 1..Len(result.solutions) : \A t \in TileIds :
      /\ PlacedOfShape(result.solutions[k], t) <= InventoryCount(puzzle, t)
      /\ puzzle.mode = "arrange" =>
           PlacedOfShape(result.solutions[k], t) = InventoryCount(puzzle, t)

\* C7: the timedOut flag of the result is true exactly when the search was
\* abandoned because the deadline had passed
C7_TimedOutIffAbandoned == pc = "done" => (result.timedOut <=> abandoned)

\* Inverted bounds or a negative count
Malformed(pz) ==
  \/ \E c \in 1..3 : pz.gridBounds.min[c] > pz.gridBounds.max[c]
  \/ \E i \in 1..Len(pz.tiles) : pz.tiles[i].count < 0

\* C8: for a malformed puzzle no search node is explored and no solution is
\* reported
C8_MalformedPuzzleRejected ==
  Malformed(puzzle) => (trace.nodesExplored = 0 /\ solutions = <<>>)

C12_CorridorHasOneSolution ==
  (pc = "done" /\ puzzle = Corridor /\ options.mode = "all" /\ ~abandoned)
    => Len(result.solutions) = 1

\* C14: solve returns at most maxSolutions solutions, at most one in mode
\* first, solutionCount is their number, and search tries no placement once
\* the count asked is reached
C14_AtMostRequested ==
  [][/\ (pc' = "done" =>
          /\ Len(result'.solutions) <= options.maxSolutions
          /\ (options.mode = "first" => Len(result'.solutions) <= 1)
          /\ result'.solutionCount = Len(result'.solutions))
     /\ (/\ pc = "search" /\ pc' = "search" /\ stack # <<>>
         /\ stack[Len(stack)].phase = "loop"
         /\ stack' # stack /\ Len(stack') >= Len(stack))
        => (/\ Len(solutions) < options.maxSolutions
            /\ ~(options.mode = "first" /\ Len(solutions) > 0))]_vars

\* In mode all with two solutions asked, two are returned before the deadline
C14_Witness ==
  /\ pc = "done"
  /\ options.mode = "all"
  /\ options.maxSolutions = 2
  /\ ~abandoned
  /\ result.solutionCount = 2
  /\ puzzle = Corridor

----------------------------------------------------------------------------
(* buildSolution: the options are tried in any order until one is accepted *)

\* Largest size asked of the builder
MaxBuildSize == 4

BuildConfigs == {[size |-> [min |-> n, max |-> n]] : n \in 1..MaxBuildSize}

\* startX and startZ are drawn from 2..6; the far end is taken, from where a
\* line of MaxBuildSize tiles ends on the last column or row (9)
BuildStarts == {<<6, 6>>}

\* The pass of the loop over one built option: whether it is returned
returned(config, b) ==
  /\ b.built
  /\ Len(b.placements) >= config.size.min
  /\ Len(b.placements) <= config.size.max
  /\ validateSolution(b.placements)

\* What the pass over each option of a call can do: the placements it can
\* return, and whether it can go on to the next option
optionPass(config, opt, startX, startZ) ==
  LET PassOf(marks) == [returns |-> {m.placements : m \in {x \in marks : x.ok}},
                        fails |-> \E m \in marks : ~m.ok]
  IN  CHOOSE pass \in
        {PassOf(marks) :
           marks \in {{[placements |-> b.placements, ok |-> returned(config, b)] :
                         b \in buildOption(opt, startX, startZ)}}} : TRUE

\* An option equal to the one before it (every snake is listed twice) has
\* the same pass
RECURSIVE passesFrom(_, _, _, _, _, _)
passesFrom(k, earlier, config, opts, startX, startZ) ==
  IF k > Len(opts) THEN <<>>
  ELSE CHOOSE passes \in
         {<<pass>> \o passesFrom(k + 1, pass, config, opts, startX, startZ) :
            pass \in {IF k > 1 /\ opts[k] = opts[k - 1] THEN earlier
                      ELSE optionPass(config, opts[k], startX, startZ)}} : TRUE

builtOutcomes(config, opts, startX, startZ) ==
  passesFrom(1, <<>>, config, opts, startX, startZ)

\* The call starts: config and start cell are chosen, the options collected;
\* outcomes holds what the pass over each option can do
InitBuild ==
  /\ \E c \in BuildConfigs, st \in BuildStarts :
       build = [config |-> c, startX |-> st[1], startZ |-> st[2],
                untried |-> 1..Len(buildOptions(c, st[1], st[2])),
                outcomes |-> builtOutcomes(c, buildOptions(c, st[1], st[2]), st[1], st[2]),
                pc |-> "loop"]
  /\ built = [found |-> FALSE, placements |-> <<>>]
  /\ IdleValidator /\ IdleCompat /\ puzzle = <<>> /\ IdleState /\ IdleSolve
  /\ IdleTiles /\ IdleEnumeration
  /\ IdlePropagation /\ IdleWalk /\ IdleGeneration
  /\ IdleRest

\* One pass of the loop over the shuffled options: the option is built and,
\* if it has the size asked and passes validateSolution, returned
TryOption ==
  /\ build.pc = "loop"
  /\ \E k \in build.untried :
       \/ \E placements \in build.outcomes[k].returns :
            /\ built' = [found |-> TRUE, placements |-> placements]
            /\ build' = [build EXCEPT !.pc = "done", !.untried = {}, !.outcomes = <<>>]
       \/ /\ build.outcomes[k].fails
          /\ built' = built
          /\ build' = [build EXCEPT !.untried = @ \ {k}]
  /\ UNCHANGED <<restVars, generatorVars, tileVars, enumeration, validatorVars, compatVars, puzzle, stateVars, solveVars>>

\* No option, or every option failed: buildSolution returns null
ReturnNull ==
  /\ build.pc = "loop" /\ build.untried = {}
  /\ build' = [build EXCEPT !.pc = "done", !.outcomes = <<>>]
  /\ built' = [found |-> FALSE, placements |-> <<>>]
  /\ UNCHANGED <<restVars, generatorVars, tileVars, enumeration, validatorVars, compatVars, puzzle, stateVars, solveVars>>

NextBuild == TryOption \/ ReturnNull

SpecBuild == InitBuild /\ [][NextBuild]_vars

\* C3: every solution buildSolution returns passes validateConnections
C3_BuiltSolutionIsValid ==
  (build.pc = "done" /\ built.found) =>
    validateConnections([i \in 1..Len(built.placements) |->
                           placementToPlacedTile(built.placements[i])]).valid

\* A rectangle of four tiles is returned
C3_Witness ==
  /\ build.pc = "done"
  /\ built.found
  /\ Len(built.placements) = 4
  /\ built.placements[1].cell[3] # built.placements[4].cell[3]
  /\ built.placements[1].cell[1] # built.placements[2].cell[1]
  /\ built.placements[4].cell[1] = built.placements[1].cell[1]

\* C13: buildSolution asked for exactly four tiles returns a network of
\* four tiles, whatever its random choices
C13_FourTilesAlwaysBuilt ==
  (build.pc = "done" /\ build.config.size = [min |-> 4, max |-> 4])
    => (built.found /\ Len(built.placements) = 4)

\* A straight line of four tiles along x is returned
C13_Witness ==
  /\ build.pc = "done"
  /\ build.config.size = [min |-> 4, max |-> 4]
  /\ built.found
  /\ Len(built.placements) = 4
  /\ \A i \in 1..4 : built.placements[i].cell = <<build.startX + i - 1, 0, build.startZ>>
  /\ build.startX = 6

\* The list without its i-th tile
WithoutTile(list, i) == SubSeq(list, 1, i - 1) \o SubSeq(list, i + 1, Len(list))

\* C15: when validateConnections reports a list valid, it reports an open
\* connector for the list with any one tile removed
C15_RemovingATileOpensConnectors ==
  (Len(tiles) > 0 /\ validation.valid) =>
    \A i \in 1..Len(tiles) :
      validateConnections(WithoutTile(tiles, i)).openConnectors # {}

----------------------------------------------------------------------------
(* getCanonicalConfig on a shape and on its image under a symmetry of the  *)
(* tile: the shape as it lies after a rotation and a flip of the tile      *)

\* Every combination of the four slots
AllConfigs == {LoopConfig(n) : n \in 0..255}

\* The 4 rotations, and the 4 rotations of the flipped tile
Symmetries == [rotation : Range(ROTATIONS), flipped : BOOLEAN]

\* Where the flip and the rotation of the tile carry a connector
Moved(edge, pos, sym) ==
  LET l == getLocalPosition(edge, pos)
      f == applyFlip(l.localX, l.localY, sym.flipped)
  IN  applyRotation(f.x, f.y, sym.rotation)

\* The shape whose connectors lie where sym carries the connectors of config
ImageConfig(config, sym) ==
  [e2 \in Range(EDGES) |->
     LET hits == {p2 \in {"left", "middle", "right"} :
                    \E e \in Range(EDGES) :
                      /\ config[e] # "none"
                      /\ Moved(e, config[e], sym).x = getLocalPosition(e2, p2).localX
                      /\ Moved(e, config[e], sym).y = getLocalPosition(e2, p2).localY}
     IN  IF hits = {} THEN "none" ELSE CHOOSE p2 \in hits : TRUE]

InitCanonical ==
  /\ \E config \in AllConfigs, sym \in Symmetries :
       canon = [config |-> config, symmetry |-> sym, image |-> ImageConfig(config, sym),
                done |-> FALSE, canonical |-> <<>>, ofImage |-> <<>>]
  /\ catalog = <<>> /\ records = <<>>
  /\ IdleValidator /\ IdleCompat /\ puzzle = <<>> /\ IdleState /\ IdleSolve /\ IdleBuild
  /\ IdleEnumeration
  /\ IdlePropagation /\ IdleWalk /\ IdleGeneration
  /\ IdleRest

GetCanonicalConfig ==
  /\ ~canon.done
  /\ canon' = [canon EXCEPT !.done = TRUE,
                            !.canonical = getCanonicalConfig(canon.config),
                            !.ofImage = getCanonicalConfig(canon.image)]
  /\ UNCHANGED <<restVars, generatorVars, catalog, records, enumeration, validatorVars, compatVars, puzzle,
                 stateVars, solveVars, buildVars>>

NextCanonical == GetCanonicalConfig

SpecCanonical == InitCanonical /\ [][NextCanonical]_vars

\* C16: a shape and its image under each of the 8 symmetries of the tile
\* have the same canonical form
C16_CanonicalFormOfImages ==
  canon.done => canon.ofImage = canon.canonical

\* A shape whose image under a flip and a quarter turn is another shape
C16_Witness ==
  /\ canon.done
  /\ canon.symmetry = [rotation |-> 90, flipped |-> TRUE]
  /\ canon.image # canon.config
  /\ connectorCount(canon.config) = 3

----------------------------------------------------------------------------
(* generateAllTiles: the four nested loops, one pass at a time *)

InitCatalog ==
  /\ catalog = [n |-> 0, tiles |-> <<>>, seen |-> {}]
  /\ canon = <<>> /\ records = <<>>
  /\ IdleValidator /\ IdleCompat /\ puzzle = <<>> /\ IdleState /\ IdleSolve /\ IdleBuild
  /\ IdleEnumeration
  /\ IdlePropagation /\ IdleWalk /\ IdleGeneration
  /\ IdleRest

GenerateStep ==
  /\ catalog.n < 256
  /\ catalog' = [n |-> catalog.n + 1,
                 tiles |-> generateStep(catalog.n, [tiles |-> catalog.tiles,
                                                    seen |-> catalog.seen]).tiles,
                 seen |-> generateStep(catalog.n, [tiles |-> catalog.tiles,
                                                   seen |-> catalog.seen]).seen]
  /\ UNCHANGED <<restVars, generatorVars, canon, records, enumeration, validatorVars, compatVars, puzzle,
                 stateVars, solveVars, buildVars>>

NextCatalog == GenerateStep

SpecCatalog == InitCatalog /\ [][NextCatalog]_vars

\* The images of a shape under the 8 symmetries of the tile
Orbit(config) == {ImageConfig(config, sym) : sym \in Symmetries}

\* C17: the finished catalog holds no shape without a connector, and of
\* every shape with a connector exactly one of its 8 images
C17_OneShapePerClass ==
  catalog.n = 256 =>
    /\ \A i \in 1..Len(catalog.tiles) : connectorCount(catalog.tiles[i]) > 0
    /\ \A config \in AllConfigs :
         connectorCount(config) > 0 =>
           Cardinality({i \in 1..Len(catalog.tiles) : catalog.tiles[i] \in Orbit(config)}) = 1

\* The loops ended with the 42 shapes the game uses
C17_Witness ==
  /\ catalog.n = 256
  /\ Len(catalog.tiles) = 42
  /\ catalog.tiles = GENERATED_TILES

----------------------------------------------------------------------------
(* generateTileVariants for one tile of the catalog, one pass at a time *)

InitVariants ==
  /\ \E t \in TileIds :
       records = [tileId |-> t, n |-> 0, variants |-> <<>>, seenSignatures |-> {}]
  /\ canon = <<>> /\ catalog = <<>>
  /\ IdleValidator /\ IdleCompat /\ puzzle = <<>> /\ IdleState /\ IdleSolve /\ IdleBuild
  /\ IdleEnumeration
  /\ IdlePropagation /\ IdleWalk /\ IdleGeneration
  /\ IdleRest

GenerateTileVariants ==
  /\ records.n < 24
  /\ LET kept == variantStep(records.tileId, records.n,
                             [variants |-> records.variants,
                              seenSignatures |-> records.seenSignatures])
     IN  records' = [records EXCEPT !.n = @ + 1,
                                    !.variants = kept.variants,
                                    !.seenSignatures = kept.seenSignatures]
  /\ UNCHANGED <<restVars, generatorVars, canon, catalog, enumeration, validatorVars, compatVars, puzzle,
                 stateVars, solveVars, buildVars>>

NextVariants == GenerateTileVariants

SpecVariants == InitVariants /\ [][NextVariants]_vars

\* The connector offsets of a variant
OffsetsOf(key) == {c.worldOffset : c \in variantConnectors(key)}

\* C19: for each orientation the kept variants of a tile have pairwise
\* different connector offsets, each of the 8 rotation and flip combinations
\* has the offsets of exactly one kept variant of that orientation, and the
\* Middle-Middle straight (tile_19) keeps 6 variants
C19_VariantsMergedBySignature ==
  records.n = 24 =>
    /\ \A i \in 1..Len(records.variants) : \A j \in 1..Len(records.variants) :
         (/\ i # j
          /\ records.variants[i].orientation = records.variants[j].orientation)
           => OffsetsOf(records.variants[i]) # OffsetsOf(records.variants[j])
    /\ \A o \in Range(ORIENTATIONS) : \A sym \in Symmetries :
         Cardinality({i \in 1..Len(records.variants) :
                        /\ records.variants[i].orientation = o
                        /\ OffsetsOf(records.variants[i]) =
                             OffsetsOf(variantKey(records.tileId, sym.rotation,
                                                  sym.flipped, o))}) = 1
    /\ records.tileId = 19 => (Len(records.variants) = 6 /\ 24 \div Len(records.variants) = 4)
    /\ records.variants = generateTileVariants(records.tileId)

\* The straight tile after its 24 passes
C19_Witness ==
  /\ records.n = 24
  /\ records.tileId = 19
  /\ Len(records.variants) = 6

----------------------------------------------------------------------------
(* Fixed placements in a constructed SolverState *)

\* C24: after the SolverState constructor every fixed placement of the
\* puzzle is in the placements map, also when its shape is not in the
\* inventory or its rotation and flip are a merged duplicate of a kept variant
C24_FixedPlacementsCommitted ==
  call.n = 0 =>
    \A i \in 1..Len(puzzle.fixedPlacements) :
       \E j \in 1..Len(state.placements) : state.placements[j] = puzzle.fixedPlacements[i]

\* C26: after any sequence of applyPlacement calls isFullyConnected() is
\* true exactly when the committed tiles form one connected component
C26_ConnectivityReflectsTiles ==
  isFullyConnected(state) <=>
    OneComponent([i \in 1..Len(state.placements) |->
                    placementToPlacedTile(state.placements[i])])

\* C25: every call of search that gets past its stopping check runs
\* propagation (counted in trace.propagationCalls) before it tests for a
\* solution or selects a slot
C25_SearchPropagatesFirst ==
  [][(/\ trace'.nodesExplored = trace.nodesExplored + 1
      /\ ~shouldStop(options, startTime, now, solutions))
     => trace'.propagationCalls = trace.propagationCalls + 1]_vars

----------------------------------------------------------------------------
(* Classification of connectors by the compatibility index *)

\* Directions toward which the index classifies a connector of a variant
FacedDirections(variant, connector) ==
  {d \in getRelevantDirections(variant.orientation) :
     connector \in getConnectorsFacingDirection(variant, d)}

\* C18: in the compatibility index a connector faces a direction only when
\* it lies on the face of its cell in that direction; every connector of a
\* flat variant faces exactly one of posX, negX, posZ, negZ
C18_FacesOnlyItsOwnFace ==
  found.done =>
    \A c \in variantConnectors(lookup.a) :
      /\ \A d \in FacedDirections(lookup.a, c) : c.worldOffset \in OnFace(lookup.a, d)
      /\ lookup.a.orientation = "flat" => Cardinality(FacedDirections(lookup.a, c)) = 1

----------------------------------------------------------------------------
(* The enumeration solver: solve(bounds, tiles, fixedPlacements, options)  *)
(* that tries every remaining tile at every free position in every variant *)

\* Cells of the bounds in the order of the loops: y outermost, then z, then x
boundsCell(bounds, k) ==
  LET nx == bounds.max[1] - bounds.min[1] + 1
      nz == bounds.max[3] - bounds.min[3] + 1
  IN  <<bounds.min[1] + (k % nx),
        bounds.min[2] + (k \div (nx * nz)),
        bounds.min[3] + ((k \div nx) % nz)>>

RECURSIVE positionsFrom(_, _)
positionsFrom(bounds, k) ==
  LET nx == bounds.max[1] - bounds.min[1] + 1
      ny == bounds.max[2] - bounds.min[2] + 1
      nz == bounds.max[3] - bounds.min[3] + 1
      c == boundsCell(bounds, k)
  IN  IF nx <= 0 \/ ny <= 0 \/ nz <= 0 \/ k >= nx * ny * nz THEN <<>>
      ELSE <<[cell |-> c, orientation |-> "flat"]>>
           \o (IF c[1] < bounds.max[1]
               THEN <<[cell |-> c, orientation |-> "vertical-x"]>> ELSE <<>>)
           \o (IF c[3] < bounds.max[3]
               THEN <<[cell |-> c, orientation |-> "vertical-z"]>> ELSE <<>>)
           \o positionsFrom(bounds, k + 1)

enumeratePositions(bounds) == positionsFrom(bounds, 0)

FLIPS == <<FALSE, TRUE>>

\* The eight variants of a tile at a position: rotation outer, flip inner
getVariantsAt(tileId, pos) ==
  [n \in 1..(Len(ROTATIONS) * Len(FLIPS)) |->
     [cell |-> pos.cell, orientation |-> pos.orientation, tileId |-> tileId,
      rotation |-> ROTATIONS[((n - 1) \div Len(FLIPS)) + 1],
      flipped |-> FLIPS[((n - 1) % Len(FLIPS)) + 1]]]

\* remainingTiles is a Map in insertion order: a sequence of [tileId, count]
mapGet(remaining, tileId) ==
  IF \E i \in 1..Len(remaining) : remaining[i].tileId = tileId
  THEN remaining[CHOOSE i \in 1..Len(remaining) : remaining[i].tileId = tileId].count
  ELSE 0

mapSet(remaining, tileId, count) ==
  IF \E i \in 1..Len(remaining) : remaining[i].tileId = tileId
  THEN [i \in 1..Len(remaining) |->
          IF remaining[i].tileId = tileId
          THEN [tileId |-> tileId, count |-> count] ELSE remaining[i]]
  ELSE Append(remaining, [tileId |-> tileId, count |-> count])

RECURSIVE buildInventory(_, _)
buildInventory(remaining, specs) ==
  IF specs = <<>> THEN remaining
  ELSE buildInventory(mapSet(remaining, Head(specs).tileId, Head(specs).count), Tail(specs))

hasRemainingTiles(remaining) == \E i \in 1..Len(remaining) : remaining[i].count > 0

useTile(remaining, tileId) ==
  LET count == mapGet(remaining, tileId)
  IN  IF count <= 0 THEN remaining ELSE mapSet(remaining, tileId, count - 1)

returnTile(remaining, tileId) == mapSet(remaining, tileId, mapGet(remaining, tileId) + 1)

\* isValidSolution that accepts every non-empty list
isValidSolutionNonEmpty(placements) == placements # <<>>

isValidSolution(placements) ==
  IF placements = <<>> THEN FALSE
  ELSE validateConnections(
         [i \in 1..Len(placements) |-> placementToPlacedTile(placements[i])]).valid

hasPositionConflict(placements, newPlacement) ==
  \E i \in 1..Len(placements) :
     /\ placements[i].cell = newPlacement.cell
     /\ placements[i].orientation = newPlacement.orientation

\* The loops of search from (t, p, v) on: the next tile with a count above 0,
\* free position and variant, or t = 0 when the loops are exhausted
RECURSIVE nextTry(_, _, _, _, _, _)
nextTry(remaining, placements, posList, t, p, v) ==
  IF t > Len(remaining) THEN [t |-> 0, p |-> 0, v |-> 0]
  ELSE IF remaining[t].count <= 0 \/ p > Len(posList)
       THEN nextTry(remaining, placements, posList, t + 1, 1, 1)
  ELSE IF hasPositionConflict(placements, posList[p])
          \/ v > Len(getVariantsAt(remaining[t].tileId, posList[p]))
       THEN nextTry(remaining, placements, posList, t, p + 1, 1)
  ELSE [t |-> t, p |-> p, v |-> v]

\* options.maxSolutions || 10, options.timeoutMs || 30000
enumMaxSolutions(opts) == IF opts.maxSolutions = 0 THEN 10 ELSE opts.maxSolutions
enumTimeoutMs(opts) == IF opts.timeoutMs = 0 THEN 30000 ELSE opts.timeoutMs

\* Two cells in a row: two end caps; one end cap next to a fixed one, with a
\* spent shape in the inventory; an end cap and a straight; nothing at all
EnumPuzzles ==
  {[bounds |-> TwoCells, tiles |-> <<[tileId |-> 1, count |-> 2]>>,
    fixedPlacements |-> <<>>],
   [bounds |-> TwoCells,
    tiles |-> <<[tileId |-> 19, count |-> 0], [tileId |-> 1, count |-> 1]>>,
    fixedPlacements |-> <<Endcap(0, "flat", 180)>>],
   [bounds |-> TwoCells,
    tiles |-> <<[tileId |-> 1, count |-> 1], [tileId |-> 19, count |-> 1]>>,
    fixedPlacements |-> <<>>],
   [bounds |-> TwoCells, tiles |-> <<>>, fixedPlacements |-> <<>>]}

\* 0 stands for a field that is absent or zero
EnumOptions == [maxSolutions : {0, 1, 2}, timeoutMs : {0, 1}]

InitEnumerate ==
  /\ \E q \in EnumPuzzles, o \in EnumOptions :
       enumeration =
         [bounds |-> q.bounds, tiles |-> q.tiles, fixedPlacements |-> q.fixedPlacements,
          options |-> o, pc |-> "search",
          placed |-> q.fixedPlacements,
          remainingTiles |-> buildInventory(<<>>, q.tiles),
          trace |-> [maxBacktrackDepth |-> 0, totalBacktracks |-> 0, nodesExplored |-> 0],
          solutions |-> <<>>,
          stack |-> <<[phase |-> "enter", t |-> 0, p |-> 0, v |-> 0]>>,
          returned |-> "none",
          clock |-> 0, startTime |-> 0,
          result |-> <<>>]
  /\ IdleValidator /\ IdleCompat /\ puzzle = <<>> /\ IdleState /\ IdleSolve /\ IdleBuild
  /\ IdleTiles
  /\ IdlePropagation /\ IdleWalk /\ IdleGeneration
  /\ IdleRest

\* search(depth) from its entry to its for loops, or to its return
EnumSearchEnter ==
  LET e == enumeration
      depth == Len(e.stack) - 1
      popped == SubSeq(e.stack, 1, Len(e.stack) - 1)
      entered == [e.trace EXCEPT !.nodesExplored = @ + 1,
                                 !.maxBacktrackDepth = Max(@, depth)]
  IN  /\ e.pc = "search" /\ e.stack # <<>> /\ e.stack[Len(e.stack)].phase = "enter"
      /\ enumeration' =
           IF e.clock - e.startTime > enumTimeoutMs(e.options)
           THEN [e EXCEPT !.stack = popped, !.returned = "true"]
           ELSE IF ~hasRemainingTiles(e.remainingTiles)
           THEN IF isValidSolution(e.placed)
                THEN [e EXCEPT !.trace = entered,
                               !.solutions = Append(@, [placements |-> e.placed]),
                               !.stack = popped,
                               !.returned =
                                  IF Len(e.solutions) + 1 >= enumMaxSolutions(e.options)
                                  THEN "true" ELSE "false"]
                ELSE [e EXCEPT !.trace = [entered EXCEPT !.totalBacktracks = @ + 1],
                               !.stack = popped, !.returned = "false"]
           ELSE [e EXCEPT !.trace = entered,
                          !.stack = Append(popped, [phase |-> "loop", t |-> 1, p |-> 1, v |-> 1])]
      /\ UNCHANGED <<restVars, generatorVars, tileVars, validatorVars, compatVars, puzzle, stateVars, solveVars, buildVars>>

\* The for loops of search up to the recursive call, or to the end of the loops
EnumSearchLoop ==
  LET e == enumeration
      f == e.stack[Len(e.stack)]
      popped == SubSeq(e.stack, 1, Len(e.stack) - 1)
      posList == enumeratePositions(e.bounds)
      try == nextTry(e.remainingTiles, e.placed, posList, f.t, f.p, f.v)
      tileId == e.remainingTiles[try.t].tileId
      variant == getVariantsAt(tileId, posList[try.p])[try.v]
  IN  /\ e.pc = "search" /\ e.stack # <<>> /\ f.phase = "loop" /\ e.returned = "none"
      /\ enumeration' =
           IF try.t = 0
           THEN [e EXCEPT !.trace.totalBacktracks = @ + 1,
                          !.stack = popped, !.returned = "false"]
           ELSE [e EXCEPT !.remainingTiles = useTile(@, tileId),
                          !.placed = Append(@, variant),
                          !.stack = popped
                                    \o <<[phase |-> "loop", t |-> try.t, p |-> try.p, v |-> try.v],
                                         [phase |-> "enter", t |-> 0, p |-> 0, v |-> 0]>>]
      /\ UNCHANGED <<restVars, generatorVars, tileVars, validatorVars, compatVars, puzzle, stateVars, solveVars, buildVars>>

\* After the recursive call: backtrack, then return true or go on to the next variant
EnumSearchBack ==
  LET e == enumeration
      f == e.stack[Len(e.stack)]
      popped == SubSeq(e.stack, 1, Len(e.stack) - 1)
      tileId == e.remainingTiles[f.t].tileId
      undone == [e EXCEPT !.placed = SubSeq(@, 1, Len(@) - 1),
                          !.remainingTiles = returnTile(@, tileId)]
  IN  /\ e.pc = "search" /\ e.stack # <<>> /\ f.phase = "loop" /\ e.returned # "none"
      /\ enumeration' =
           IF e.returned = "true"
           THEN [undone EXCEPT !.stack = popped]
           ELSE [undone EXCEPT !.stack = Append(popped, [f EXCEPT !.v = @ + 1]),
                               !.returned = "none"]
      /\ UNCHANGED <<restVars, generatorVars, tileVars, validatorVars, compatVars, puzzle, stateVars, solveVars, buildVars>>

\* The return of solve after search(0)
EnumReturn ==
  LET e == enumeration
  IN  /\ e.pc = "search" /\ e.stack = <<>>
      /\ enumeration' =
           [e EXCEPT !.pc = "done",
                     !.result = [solutions |-> e.solutions,
                                 solutionCount |-> Len(e.solutions),
                                 trace |-> e.trace,
                                 timedOut |-> e.clock - e.startTime > enumTimeoutMs(e.options)]]
      /\ UNCHANGED <<restVars, generatorVars, tileVars, validatorVars, compatVars, puzzle, stateVars, solveVars, buildVars>>

\* Date.now() advances while solve runs
EnumTick ==
  /\ enumeration.pc = "search" /\ enumeration.clock < MaxClock
  /\ enumeration' = [enumeration EXCEPT !.clock = @ + 1]
  /\ UNCHANGED <<restVars, generatorVars, tileVars, validatorVars, compatVars, puzzle, stateVars, solveVars, buildVars>>

NextEnumerate == EnumSearchEnter \/ EnumSearchLoop \/ EnumSearchBack \/ EnumReturn \/ EnumTick

SpecEnumerate == InitEnumerate /\ [][NextEnumerate]_vars

\* Tiles of a shape among the placements after the fixed ones
PlacedBySearch(placements, fixed, tileId) ==
  Cardinality({i \in (Len(fixed) + 1)..Len(placements) : placements[i].tileId = tileId})

\* C20: every solution returned by the enumeration solver uses all the tiles
\* of the inventory and passes validateConnections
C20_EnumeratedSolutionsComplete ==
  enumeration.pc = "done" =>
    \A i \in 1..Len(enumeration.result.solutions) :
      LET placements == enumeration.result.solutions[i].placements
      IN  /\ \A k \in 1..Len(enumeration.tiles) :
               PlacedBySearch(placements, enumeration.fixedPlacements,
                              enumeration.tiles[k].tileId) = enumeration.tiles[k].count
          /\ validateConnections(
               [k \in 1..Len(placements) |-> placementToPlacedTile(placements[k])]).valid

C20_Witness ==
  /\ enumeration.pc = "done"
  /\ enumeration.result.solutionCount = 2
  /\ enumeration.fixedPlacements = <<>>
  /\ \E k \in 1..Len(enumeration.tiles) : enumeration.tiles[k].count = 2

----------------------------------------------------------------------------
(* Constraint propagation: src/src/puzzle/solver/Propagator.ts *)

ORIENTATION_DIRECTIONS(orientation) ==
  CASE orientation = "flat"       -> <<"posX", "negX", "posZ", "negZ">>
    [] orientation = "vertical-x" -> <<"posY", "negY", "posZ", "negZ">>
    [] orientation = "vertical-z" -> <<"posX", "negX", "posY", "negY">>

DIRECTION_OFFSETS(direction) ==
  CASE direction = "posX" -> <<1, 0, 0>>
    [] direction = "negX" -> <<-1, 0, 0>>
    [] direction = "posY" -> <<0, 1, 0>>
    [] direction = "negY" -> <<0, -1, 0>>
    [] direction = "posZ" -> <<0, 0, 1>>
    [] direction = "negZ" -> <<0, 0, -1>>

getNeighborCell(cell, direction) ==
  [i \in 1..3 |-> cell[i] + DIRECTION_OFFSETS(direction)[i]]

isInBounds(cell, s) ==
  \A i \in 1..3 : cell[i] >= s.bounds.min[i] /\ cell[i] <= s.bounds.max[i]

getNeighborOrientations(orientation, direction) ==
  CASE orientation = "flat" /\ direction \in {"posX", "negX"} -> <<"flat", "vertical-x">>
    [] orientation = "flat" /\ direction \in {"posZ", "negZ"} -> <<"flat", "vertical-z">>
    [] orientation = "vertical-x" /\ direction \in {"posY", "negY"} -> <<"vertical-x", "flat">>
    [] orientation = "vertical-x" /\ direction \in {"posZ", "negZ"} -> <<"vertical-x">>
    [] orientation = "vertical-z" /\ direction \in {"posX", "negX"} -> <<"vertical-z">>
    [] orientation = "vertical-z" /\ direction \in {"posY", "negY"} -> <<"vertical-z", "flat">>
    [] OTHER -> <<>>

\* this.domains.get(key) ?? new Set()
getDomain(s, key) == IF key \in DOMAIN s.domains THEN s.domains[key] ELSE <<>>

\* this.domains.set(key, domain)
setDomain(s, key, domain) ==
  [s EXCEPT !.domains = MapSet(@, key, domain),
            !.slots = IF key \in Range(@) THEN @ ELSE Append(@, key)]

isPlaced(s, key) == placementsHas(s, key)

hasContradiction(s) ==
  \E i \in 1..Len(s.slots) :
     Len(s.domains[s.slots[i]]) = 0 /\ ~placementsHas(s, s.slots[i])

\* getCompatibleVariants(key, direction).has(v2)
compatibleHas(key, direction, v2) ==
  /\ key \in getVariants
  /\ direction \in getRelevantDirections(key.orientation)
  /\ v2 \in getVariants
  /\ variantsCompatible(key, v2, direction)

\* getCompatibleFromDomain(domain, direction).has(v2)
compatibleFromDomainHas(domain, direction, v2) ==
  \E i \in 1..Len(domain) : compatibleHas(domain[i], direction, v2)

RECURSIVE Flatten(_)
Flatten(ss) == IF ss = <<>> THEN <<>> ELSE Head(ss) \o Flatten(Tail(ss))

\* The neighbour slots the loops of propagate visit for a slot, in order,
\* each with the direction it lies in
neighborArcs(s, key) ==
  LET dirs == ORIENTATION_DIRECTIONS(key[2])
      arcsIn(dir) ==
        LET nc == getNeighborCell(key[1], dir)
            os == getNeighborOrientations(key[2], dir)
        IN  IF ~isInBounds(nc, s) THEN <<>>
            ELSE [k \in 1..Len(os) |->
                    [direction |-> dir,
                     key |-> cellOrientationKey(nc[1], nc[2], nc[3], os[k])]]
  IN  Flatten([i \in 1..Len(dirs) |-> arcsIn(dirs[i])])

\* The two for loops of propagate for one slot taken from the queue
RECURSIVE reviseArcs(_, _, _, _, _, _)
reviseArcs(s, queue, changes, currentDomain, arcs, i) ==
  IF i > Len(arcs)
  THEN [failed |-> FALSE, state |-> s, queue |-> queue, changes |-> changes]
  ELSE LET arc == arcs[i]
           neighborDomain == getDomain(s, arc.key)
           Revised(newNeighborDomain) ==
             IF Len(newNeighborDomain) < Len(neighborDomain)
             THEN IF Len(newNeighborDomain) = 0
                  THEN [failed |-> TRUE, state |-> s, queue |-> queue,
                        changes |-> changes + 1]
                  ELSE reviseArcs(setDomain(s, arc.key, newNeighborDomain),
                                  IF arc.key \in Range(queue) THEN queue
                                  ELSE Append(queue, arc.key),
                                  changes + 1, currentDomain, arcs, i + 1)
             ELSE reviseArcs(s, queue, changes, currentDomain, arcs, i + 1)
       IN  IF Len(neighborDomain) = 0
           THEN reviseArcs(s, queue, changes, currentDomain, arcs, i + 1)
           ELSE CHOOSE r \in
                  {Revised(d) :
                     d \in {SelectSeq(neighborDomain,
                                      LAMBDA n : compatibleFromDomainHas(
                                                   currentDomain, arc.direction, n))}} : TRUE

\* The while loop of propagate
RECURSIVE propagateLoop(_, _, _)
propagateLoop(s, queue, changes) ==
  IF queue = <<>> THEN [success |-> TRUE, changes |-> changes, state |-> s]
  ELSE LET currentKey == Head(queue)
           currentDomain == getDomain(s, currentKey)
           Next(r) == IF r.failed
                      THEN [success |-> FALSE, changes |-> r.changes, state |-> r.state]
                      ELSE propagateLoop(r.state, r.queue, r.changes)
       IN  IF Len(currentDomain) = 0
           THEN [success |-> FALSE, changes |-> changes, state |-> s]
           ELSE CHOOSE out \in
                  {Next(r) : r \in {reviseArcs(s, Tail(queue), changes, currentDomain,
                                               neighborArcs(s, currentKey), 1)}} : TRUE

\* What propagate returns and the state it leaves
propagate(s) ==
  propagateLoop(s,
                SelectSeq(s.slots, LAMBDA key : /\ Len(s.domains[key]) > 0
                                                /\ Len(s.domains[key]) < 100),
                0)

\* The edge-mounted slots above the lowest level whose domain
\* propagateSupportConstraints clears
unsupported(s) ==
  {key \in DOMAIN s.domains :
     /\ key[2] \in {"vertical-x", "vertical-z"}
     /\ isInBounds(key[1], s)
     /\ key[1][2] >= s.bounds.min[2] + 1
     /\ Len(getDomain(s, key)) > 0
     /\ LET below == cellOrientationKey(key[1][1], key[1][2] - 1, key[1][3], "flat")
        IN  Len(getDomain(s, below)) = 0 /\ ~isPlaced(s, below)}

\* propagateSupportConstraints that clears nothing
propagateSupportConstraintsIdle(s) == [success |-> TRUE, changes |-> 0, state |-> s]

propagateSupportConstraints(s) ==
  [success |-> TRUE,
   changes |-> Cardinality(unsupported(s)),
   state |-> [s EXCEPT !.domains = [key \in DOMAIN @ |->
                                      IF key \in unsupported(s) THEN <<>> ELSE @[key]]]]

\* The while loop of fullPropagate
RECURSIVE fullPropagateLoop(_, _, _)
fullPropagateLoop(s, totalChanges, iterations) ==
  IF iterations >= 100 THEN [success |-> TRUE, changes |-> totalChanges, state |-> s]
  ELSE LET Rest(ac3Result) ==
             IF ~ac3Result.success
             THEN [success |-> FALSE, changes |-> totalChanges + ac3Result.changes,
                   state |-> ac3Result.state]
             ELSE LET After(supportResult) ==
                        IF ac3Result.changes = 0 /\ supportResult.changes = 0
                        THEN [success |-> TRUE,
                              changes |-> totalChanges + ac3Result.changes
                                            + supportResult.changes,
                              state |-> supportResult.state]
                        ELSE fullPropagateLoop(supportResult.state,
                                               totalChanges + ac3Result.changes
                                                 + supportResult.changes,
                                               iterations + 1)
                  IN  CHOOSE out \in
                        {After(sr) :
                           sr \in {propagateSupportConstraints(ac3Result.state)}} : TRUE
       IN  CHOOSE out \in {Rest(ar) : ar \in {propagate(s)}} : TRUE

fullPropagate(s) == fullPropagateLoop(s, 0, 0)

----------------------------------------------------------------------------
(* The propagation run: a solver state is built, tiles are placed and      *)
(* domains cleared through its methods, and the propagation functions are  *)
(* called on it                                                            *)

\* applyPlacement calls, setDomain calls and propagation calls in a run
MaxPropPlaced == 1
MaxPropCleared == 1
MaxPropCalls == 2

TwoLevels == [min |-> <<0, 0, 0>>, max |-> <<0, 1, 0>>]

\* Fourteen tile ids whose variants make a domain of more than a hundred
ManyTileIds == <<0, 1, 2, 3, 5, 9, 11, 12, 13, 14, 15, 17, 18, 20>>

\* Two cells in a row with two end caps; one cell with a second level above
\* it, an end cap and a straight; one cell and no tile to place; two cells
\* in a row and one tile of each of fourteen ids
PropPuzzles ==
  {[mode |-> "arrange", tiles |-> <<[tileId |-> 1, count |-> 2]>>,
    fixedPlacements |-> <<>>, gridBounds |-> TwoCells],
   [mode |-> "complete", tiles |-> <<>>, fixedPlacements |-> <<>>, gridBounds |-> OneCell],
   [mode |-> "arrange", tiles |-> [i \in 1..Len(ManyTileIds) |->
                                      [tileId |-> ManyTileIds[i], count |-> 1]],
    fixedPlacements |-> <<>>, gridBounds |-> TwoCells],
   [mode |-> "arrange",
    tiles |-> <<[tileId |-> 1, count |-> 1], [tileId |-> 19, count |-> 1]>>,
    fixedPlacements |-> <<>>, gridBounds |-> TwoLevels]}

PropPlacements ==
  [cell : {<<0, 0, 0>>, <<1, 0, 0>>, <<0, 1, 0>>},
   orientation : {"flat", "vertical-x"},
   tileId : {1},
   rotation : {0, 180},
   flipped : {FALSE}]

InitPropagate ==
  /\ \E q \in PropPuzzles :
       propagation = [puzzle |-> q, state |-> createSolverState(q),
                      before |-> createSolverState(q),
                      fn |-> "none", result |-> [success |-> TRUE, changes |-> 0],
                      placed |-> 0, cleared |-> 0, calls |-> 0]
  /\ IdleValidator /\ IdleCompat /\ puzzle = <<>> /\ IdleState /\ IdleSolve /\ IdleBuild
  /\ IdleTiles /\ IdleEnumeration /\ IdleWalk /\ IdleGeneration
  /\ IdleRest

\* state.applyPlacement(placement) that returns true
PropApplyPlacement ==
  /\ propagation.placed < MaxPropPlaced
  /\ \E placement \in PropPlacements :
       LET r == applyPlacement(propagation.state, placement, FALSE)
       IN  /\ r.ok
           /\ propagation' = [propagation EXCEPT !.state = r.state, !.placed = @ + 1,
                                                 !.fn = "none"]
  /\ UNCHANGED <<restVars, tileVars, enumeration, walk, generation, validatorVars, compatVars, puzzle,
                 stateVars, solveVars, buildVars>>

\* state.setDomain(x, y, z, orientation, new Set())
PropSetDomain ==
  /\ propagation.cleared < MaxPropCleared
  /\ \E key \in DOMAIN propagation.state.domains :
       propagation' = [propagation EXCEPT !.state = setDomain(@, key, <<>>),
                                          !.cleared = @ + 1, !.fn = "none"]
  /\ UNCHANGED <<restVars, tileVars, enumeration, walk, generation, validatorVars, compatVars, puzzle,
                 stateVars, solveVars, buildVars>>

\* The record of a call: the state before, the state left, what was returned
Called(fn, r) ==
  [propagation EXCEPT !.before = propagation.state, !.state = r.state, !.fn = fn,
                      !.result = [success |-> r.success, changes |-> r.changes],
                      !.calls = @ + 1]

Propagate ==
  /\ propagation.calls < MaxPropCalls
  /\ propagation' = Called("propagate", propagate(propagation.state))
  /\ UNCHANGED <<restVars, tileVars, enumeration, walk, generation, validatorVars, compatVars, puzzle,
                 stateVars, solveVars, buildVars>>

PropagateSupportConstraints ==
  /\ propagation.calls < MaxPropCalls
  /\ propagation' = Called("propagateSupportConstraints",
                           propagateSupportConstraints(propagation.state))
  /\ UNCHANGED <<restVars, tileVars, enumeration, walk, generation, validatorVars, compatVars, puzzle,
                 stateVars, solveVars, buildVars>>

FullPropagate ==
  /\ propagation.calls < MaxPropCalls
  /\ propagation' = Called("fullPropagate", fullPropagate(propagation.state))
  /\ UNCHANGED <<restVars, tileVars, enumeration, walk, generation, validatorVars, compatVars, puzzle,
                 stateVars, solveVars, buildVars>>

NextPropagate ==
  \/ PropApplyPlacement
  \/ PropSetDomain
  \/ Propagate
  \/ PropagateSupportConstraints
  \/ FullPropagate

SpecPropagate == InitPropagate /\ [][NextPropagate]_vars

\* C29: whenever propagate or fullPropagate returns success, no unplaced
\* slot has an empty domain
C29_SuccessMeansNoEmptyDomain ==
  (propagation.fn \in {"propagate", "fullPropagate"} /\ propagation.result.success)
    => ~hasContradiction(propagation.state)

\* C30: after propagateSupportConstraints every edge-mounted slot above
\* ground level with a non-empty domain has a flat slot directly below that
\* is placed or has a non-empty domain; the unsupported slots are cleared
\* and every other domain is unchanged
C30_SupportConstraintEnforced ==
  propagation.fn = "propagateSupportConstraints" =>
    LET after == propagation.state
        Below(key) == cellOrientationKey(key[1][1], key[1][2] - 1, key[1][3], "flat")
        EdgeAbove == {key \in DOMAIN after.domains :
                        key[2] \in {"vertical-x", "vertical-z"} /\ key[1][2] > 0}
        Supported(s, key) == isPlaced(s, Below(key)) \/ Len(getDomain(s, Below(key))) > 0
    IN  /\ DOMAIN after.domains = DOMAIN propagation.before.domains
        /\ \A key \in EdgeAbove :
             Len(after.domains[key]) > 0 => Supported(after, key)
        /\ \A key \in DOMAIN after.domains :
             after.domains[key] =
               IF key \in EdgeAbove /\ ~Supported(propagation.before, key)
               THEN <<>> ELSE propagation.before.domains[key]

C30_Witness ==
  /\ propagation.fn = "propagateSupportConstraints"
  /\ \E key \in DOMAIN propagation.state.domains :
       /\ key[2] = "vertical-x" /\ key[1][2] > 0
       /\ Len(propagation.before.domains[key]) > 0
       /\ Len(propagation.state.domains[key]) = 0
  /\ \E key \in DOMAIN propagation.state.domains :
       /\ key[2] = "flat" /\ key[1][2] > 0
       /\ Len(propagation.state.domains[key]) > 0

\* C28: when propagate returns success no domain has grown and the state is
\* arc-consistent: for every slot with a non-empty domain and every
\* neighbour slot examined from it whose domain is non-empty, each variant
\* left in the neighbour's domain is permitted by the compatibility index
\* for at least one variant of the slot's domain
C28_ArcConsistentAfterPropagate ==
  (propagation.fn = "propagate" /\ propagation.result.success) =>
    LET after == propagation.state
    IN  /\ \A key \in DOMAIN after.domains :
             Range(after.domains[key]) \subseteq Range(getDomain(propagation.before, key))
        /\ \A key \in DOMAIN after.domains :
             Len(after.domains[key]) > 0 =>
               LET arcs == neighborArcs(after, key)
               IN  \A i \in 1..Len(arcs) :
                     \A v2 \in Range(getDomain(after, arcs[i].key)) :
                        compatibleFromDomainHas(after.domains[key], arcs[i].direction, v2)

\* Some way of placing every tile that avail still counts on slots not yet
\* used makes chosen an arrangement with every connector matched
RECURSIVE CanComplete(_, _, _)
CanComplete(s, chosen, avail) ==
  IF \A t \in DOMAIN avail : avail[t] <= 0
  THEN validateConnections(
         [k \in 1..Len(chosen) |-> placementToPlacedTile(chosen[k])]).valid
  ELSE LET t == CHOOSE t \in DOMAIN avail :
                  avail[t] > 0 /\ \A u \in DOMAIN avail : avail[u] > 0 => u >= t
       IN  \E k \in 1..Len(s.slots) :
             /\ \A j \in 1..Len(chosen) : placementKey(chosen[j]) # s.slots[k]
             /\ \E v \in Range(getTileVariants(t)) :
                  /\ v.orientation = s.slots[k][2]
                  /\ CanComplete(s,
                                 Append(chosen,
                                        variantToPlacement(v, s.slots[k][1], s.slots[k][2])),
                                 [avail EXCEPT ![t] = @ - 1])

\* The slot holds the variant in some arrangement that extends the
\* placements of s, uses exactly its remaining inventory and has every
\* connector matched
HeldInSomeArrangement(s, key, v) ==
  /\ ~isPlaced(s, key)
  /\ getRemainingCount(s, v.tileId) > 0
  /\ CanComplete(s, Append(s.placements, variantToPlacement(v, key[1], key[2])),
                 [s.availableTiles EXCEPT ![v.tileId] = @ - 1])

\* C27: propagate removes from a slot's domain no variant that the slot
\* holds in some arrangement extending the current placements, using
\* exactly the remaining inventory and leaving no connector open
C27_PropagationKeepsSolutions ==
  propagation.fn = "propagate" =>
    \A key \in DOMAIN propagation.before.domains :
       \A v \in Range(propagation.before.domains[key])
                  \ Range(getDomain(propagation.state, key)) :
          ~HeldInSomeArrangement(propagation.before, key, v)

----------------------------------------------------------------------------
(* Random-walk solution builder: src/unnamed/part_001                      *)
(* Cells are <<x, y, z>> in whole cells, world positions in hundredths.    *)
(* A builder state is [placements, placedCells, openConnectors, usedTiles] *)

\* The edges of a config that hold a connector, in the order of EDGES
presentEdges(config) == SelectSeq(EDGES, LAMBDA e : config[e] # "none")

\* The connectors generateConnectors pushes for a config
connectorList(config, key) ==
  [k \in 1..Len(presentEdges(config)) |->
     [edge |-> presentEdges(config)[k],
      position |-> config[presentEdges(config)[k]],
      worldOffset |->
        computeConnectorWorldOffset(presentEdges(config)[k],
                                    config[presentEdges(config)[k]],
                                    key.rotation, key.flipped, key.orientation)]]

\* variant.connectors
variantConnectorList(key) == connectorList(getTileConfig(key.tileId), key)

\* getConnectorWorldPos of the builder: cell plus world offset
builderConnectorWorldPos(cell, connector) ==
  [i \in 1..3 |-> 100 * cell[i] + connector.worldOffset[i]]

\* The three coordinates differ by less than the tolerance 0.01
samePosition(a, b) == \A i \in 1..3 : Abs(a[i] - b[i]) < TOLERANCE

isValidPosition(pos, config) ==
  /\ ~(pos[1] < 0 \/ pos[1] > 9)
  /\ ~(pos[3] < 0 \/ pos[3] > 9)
  /\ ~(pos[2] < 0)
  /\ ~(pos[2] > config.maxHeight)
  /\ ~(~config.allow3D /\ pos[2] > 0)

isOrientationAllowed(orientation, config) ==
  ~(~config.allow3D /\ orientation # "flat")

isOccupied(st, cell, orientation) == <<cell, orientation>> \in st.placedCells

\* Array.filter by index: the elements whose index is not in drop, in order
RemoveIndexes(q, drop) ==
  LET keep == SelectSeq([i \in 1..Len(q) |-> i], LAMBDA i : i \notin drop)
  IN  [k \in 1..Len(keep) |-> q[keep[k]]]

\* The loop of addPlacement over the open connectors: each one is dropped
\* when a new connector not yet matched lies at its position
RECURSIVE matchOpenConnectors(_, _, _, _, _)
matchOpenConnectors(open, newConnectors, k, matchedNew, remainingOpen) ==
  IF k > Len(open)
  THEN remainingOpen \o RemoveIndexes(newConnectors, matchedNew)
  ELSE LET hits == {i \in 1..Len(newConnectors) :
                      /\ i \notin matchedNew
                      /\ samePosition(open[k].worldPos, newConnectors[i].worldPos)}
       IN  IF hits = {}
           THEN matchOpenConnectors(open, newConnectors, k + 1, matchedNew,
                                    Append(remainingOpen, open[k]))
           ELSE matchOpenConnectors(open, newConnectors, k + 1,
                                    matchedNew \cup {SetMin(hits)}, remainingOpen)

\* The open connectors a placement brings, one per connector of its variant
newConnectors(placement, conns) ==
  [i \in 1..Len(conns) |->
     [cell |-> placement.cell, orientation |-> placement.orientation,
      connector |-> conns[i],
      worldPos |-> builderConnectorWorldPos(placement.cell, conns[i])]]

addPlacement(st, placement, variant) ==
  [placements |-> Append(st.placements, placement),
   placedCells |-> st.placedCells \cup {<<placement.cell, placement.orientation>>},
   usedTiles |-> MapSet(st.usedTiles, placement.tileId,
                        (IF placement.tileId \in DOMAIN st.usedTiles
                         THEN st.usedTiles[placement.tileId] ELSE 0) + 1),
   openConnectors |->
     matchOpenConnectors(st.openConnectors,
                         newConnectors(placement, variantConnectorList(variant)),
                         1, {}, <<>>)]

\* The position, in hundredths, of the cell that puts the connector at the
\* target
findCellForConnector(connector, targetWorldPos) ==
  [i \in 1..3 |-> targetWorldPos[i] - connector.worldOffset[i]]

\* Math.round of a length in hundredths, in whole cells
roundCell(c) == (c + 50) \div 100

isValidCell(cell, config) ==
  /\ \A i \in 1..3 : ~(Abs(cell[i] - 100 * roundCell(cell[i])) > 1)
  /\ isValidPosition([i \in 1..3 |-> roundCell(cell[i])], config)

checkSupportRules(st, cell, orientation) ==
  IF cell[2] = 0 THEN TRUE
  ELSE IF orientation = "flat" THEN TRUE
  ELSE IF orientation \in {"vertical-x", "vertical-z"}
  THEN <<<<cell[1], cell[2] - 1, cell[3]>>, "flat">> \in st.placedCells
  ELSE TRUE

\* The candidate one connector of a variant gives, as a list of at most one
candidateAt(st, config, variant, cell) ==
  IF /\ isValidCell(cell, config)
     /\ ~isOccupied(st, [i \in 1..3 |-> roundCell(cell[i])], variant.orientation)
     /\ checkSupportRules(st, [i \in 1..3 |-> roundCell(cell[i])], variant.orientation)
  THEN <<[placement |-> variantToPlacement(variant, [i \in 1..3 |-> roundCell(cell[i])],
                                           variant.orientation),
          variant |-> variant]>>
  ELSE <<>>

candidatesOfVariant(st, openConn, config, variant, conns) ==
  IF ~isOrientationAllowed(variant.orientation, config) THEN <<>>
  ELSE Flatten([k \in 1..Len(conns) |->
                  candidateAt(st, config, variant,
                              findCellForConnector(conns[k], openConn.worldPos))])

candidatesOfTile(st, openConn, config, variants) ==
  Flatten([k \in 1..Len(variants) |->
             candidatesOfVariant(st, openConn, config, variants[k],
                                 variantConnectorList(variants[k]))])

\* The candidates in the order the three loops push them
findMatchingTiles(st, openConn, config) ==
  Flatten([k \in 1..Len(config.tilePool) |->
             candidatesOfTile(st, openConn, config, getTileVariants(config.tilePool[k]))])

\* How many of the connectors of a candidate lie on an open connector
closesCountOf(st, cell, conns) ==
  Cardinality({k \in 1..Len(conns) :
                 \E o \in 1..Len(st.openConnectors) :
                    samePosition(builderConnectorWorldPos(cell, conns[k]),
                                 st.openConnectors[o].worldPos)})

closesCount(st, candidate) ==
  closesCountOf(st, candidate.placement.cell, variantConnectorList(candidate.variant))

\* closesCount * 2 - newOpenCount for the connectors of a candidate
scoreOf(st, cell, conns) ==
  closesCountOf(st, cell, conns) * 2 - (Len(conns) - closesCountOf(st, cell, conns))

candidateScore(st, candidate) ==
  scoreOf(st, candidate.placement.cell, variantConnectorList(candidate.variant))

\* The candidates selectTileWeighted can return: every weight is at least
\* 0.1 / (used + 1), so the draw can fall on each of them
selectTileWeighted(candidates) == Range(candidates)

\* The tile ids selectSeedTile can return
selectSeedTile(config) ==
  LET twoConnector == {t \in Range(config.tilePool) :
                         t \in TileIds /\ connectorCount(getTileConfig(t)) = 2}
      valid == {t \in Range(config.tilePool) :
                  t \in TileIds /\ connectorCount(getTileConfig(t)) >= 2}
  IN  IF twoConnector # {} THEN twoConnector
      ELSE IF valid # {} THEN valid ELSE Range(config.tilePool)

\* The first pair of open connectors at one position, <<0, 0>> for none
firstMatchingPair(open) ==
  LET pairs == {q \in (1..Len(open)) \X (1..Len(open)) :
                  q[1] < q[2] /\ samePosition(open[q[1]].worldPos, open[q[2]].worldPos)}
  IN  IF pairs = {} THEN <<0, 0>>
      ELSE CHOOSE q \in pairs :
             \A o \in pairs : q[1] < o[1] \/ (q[1] = o[1] /\ q[2] <= o[2])

\* Index of the first greatest score: the stable sort by descending score
\* puts that candidate first
firstGreatest(scores) ==
  CHOOSE k \in 1..Len(scores) :
    /\ \A j \in 1..Len(scores) : scores[j] <= scores[k]
    /\ \A j \in 1..(k - 1) : scores[j] < scores[k]

bestCandidate(st, candidates) ==
  firstGreatest([k \in 1..Len(candidates) |-> candidateScore(st, candidates[k])])

\* The while loop of closeOpenConnectors: closeLoop is a pass up to the
\* candidates, closeWithCandidates and closeWithBest the rest of the pass
RECURSIVE closeLoop(_, _, _, _, _)
closeWithBest(st, config, maxExtraTiles, iterations, tilesAdded, best, closes) ==
  IF closes > 0
  THEN closeLoop(addPlacement(st, best.placement, best.variant),
                 config, maxExtraTiles, iterations, tilesAdded + 1)
  ELSE st

closeWithIndex(st, config, maxExtraTiles, iterations, tilesAdded, best) ==
  closeWithBest(st, config, maxExtraTiles, iterations, tilesAdded, best,
                closesCount(st, best))

closeWithCandidates(st, config, maxExtraTiles, iterations, tilesAdded, candidates) ==
  IF Len(candidates) = 0 THEN st
  ELSE closeWithIndex(st, config, maxExtraTiles, iterations, tilesAdded,
                      candidates[bestCandidate(st, candidates)])

closePair(st, config, maxExtraTiles, iterations, tilesAdded, q) ==
  IF q # <<0, 0>>
  THEN closeLoop([st EXCEPT !.openConnectors = RemoveIndexes(@, {q[1], q[2]})],
                 config, maxExtraTiles, iterations, tilesAdded)
  ELSE closeWithCandidates(
         st, config, maxExtraTiles, iterations, tilesAdded,
         SelectSeq(findMatchingTiles(st, st.openConnectors[1], config),
                   LAMBDA c : isOrientationAllowed(c.variant.orientation, config)))

closeLoop(st, config, maxExtraTiles, iterations, tilesAdded) ==
  IF ~(Len(st.openConnectors) > 0 /\ iterations < 50 /\ tilesAdded < maxExtraTiles)
  THEN st
  ELSE closePair(st, config, maxExtraTiles, iterations + 1, tilesAdded,
                 firstMatchingPair(st.openConnectors))

closeOpenConnectors(st, config, maxExtraTiles) ==
  closeLoop(st, config, maxExtraTiles, 0, 0)

\* getEffectiveConfig: the edge values after the flip, then the rotation
getEffectiveConfig(config, rotation, flipped) ==
  LET edges == <<config.top, config.right, config.bottom, config.left>>
      flippedEdges == IF flipped THEN <<edges[1], edges[4], edges[3], edges[2]>> ELSE edges
      steps == (rotation \div 90) % 4
      turned == [i \in 1..4 |-> flippedEdges[((i - 1 - steps + 4) % 4) + 1]]
  IN  [top |-> turned[1], right |-> turned[2], bottom |-> turned[3], left |-> turned[4]]

\* The first rotation and flip of the tile that findTileForLoop accepts, as
\* a set of at most one element: a required edge must hold 'mid', an edge
\* not required must hold nothing
loopTileMatch(tileId, needs) ==
  LET pass(n) == [rotation |-> 90 * (n \div 2), flipped |-> n % 2 = 1]
      accepts(n) ==
        LET effConfig == getEffectiveConfig(getTileConfig(tileId), pass(n).rotation,
                                            pass(n).flipped)
        IN  \A e \in Range(EDGES) :
               IF needs[e] THEN effConfig[e] = "mid" ELSE effConfig[e] = "none"
      hits == {n \in 0..7 : accepts(n)}
  IN  IF tileId \notin TileIds \/ hits = {} THEN {}
      ELSE {[tileId |-> tileId, rotation |-> pass(SetMin(hits)).rotation,
             flipped |-> pass(SetMin(hits)).flipped]}

\* What findTileForLoop can return over the shuffles of the pool; the empty
\* set stands for null
findTileForLoop(tilePool, needs) ==
  UNION {loopTileMatch(t, needs) : t \in Range(tilePool)}

\* The placement lists a loop builder can return for the cells and their
\* needs; the empty set stands for null
loopPlacements(tilePool, cells, needs) ==
  IF \E i \in 1..Len(cells) : findTileForLoop(tilePool, needs[i]) = {} THEN {}
  ELSE {[i \in 1..Len(cells) |->
           [cell |-> cells[i], orientation |-> "flat", tileId |-> f[i].tileId,
            rotation |-> f[i].rotation, flipped |-> f[i].flipped]] :
          f \in {g \in [1..Len(cells) -> UNION {findTileForLoop(tilePool, needs[i]) :
                                                   i \in 1..Len(cells)}] :
                   \A i \in 1..Len(cells) : g[i] \in findTileForLoop(tilePool, needs[i])}}

buildLineSolution(config, length) ==
  IF length < 2 THEN {}
  ELSE loopPlacements(
         config.tilePool,
         [i \in 1..length |-> <<4 + (i - 1), 0, 5>>],
         [i \in 1..length |->
            [top |-> FALSE, bottom |-> FALSE,
             right |-> i = 1 \/ i # length,
             left |-> i # 1]])

\* The perimeter of the rectangle from its top-left corner, clockwise
loopPath(width, height) ==
  [x \in 1..width |-> <<4 + (x - 1), 0, 4>>]
    \o [z \in 1..(height - 1) |-> <<4 + width - 1, 0, 4 + z>>]
    \o [k \in 1..(width - 1) |-> <<4 + (width - 1 - k), 0, 4 + height - 1>>]
    \o [k \in 1..(height - 2) |-> <<4, 0, 4 + (height - 1 - k)>>]

\* The edge of cell that the neighbour cell other asks a connector on
neededEdge(other, cell) ==
  IF other[1] < cell[1] THEN "left"
  ELSE IF other[1] > cell[1] THEN "right"
  ELSE IF other[3] < cell[3] THEN "top"
  ELSE IF other[3] > cell[3] THEN "bottom"
  ELSE "none"

buildRectangularLoop(config, width, height) ==
  LET path == loopPath(width, height)
      n == Len(path)
  IN  loopPlacements(
        config.tilePool, path,
        [i \in 1..n |->
           [e \in Range(EDGES) |->
              e \in {neededEdge(path[((i - 2 + n) % n) + 1], path[i]),
                     neededEdge(path[(i % n) + 1], path[i])}]])

\* The placement lists tryBuildLoop can return over the shuffles of its
\* configurations; the empty set stands for null
tryBuildLoop(config) ==
  UNION ({buildRectangularLoop(config, w, h) :
            <<w, h>> \in {q \in (2..5) \X (2..5) :
                            /\ 2 * q[1] + 2 * q[2] - 4 >= config.size.min
                            /\ 2 * q[1] + 2 * q[2] - 4 <= config.size.max}}
         \cup {buildLineSolution(config, len) :
                 len \in {l \in config.size.min..config.size.max : l >= 2}})

\* The target sizes buildSolution can draw: an odd one below the maximum is
\* raised to the next even one
targetSizes(config) ==
  {IF t % 2 # 0 /\ t < config.size.max THEN t + 1 ELSE t :
     t \in config.size.min..config.size.max}

\* The flat variants the seed is drawn from
seedVariants(config, seedTileId) ==
  SelectSeq(SelectSeq(getTileVariants(seedTileId),
                      LAMBDA v : isOrientationAllowed(v.orientation, config)),
            LAMBDA v : v.orientation = "flat")

EmptyBuilderState ==
  [placements |-> <<>>, placedCells |-> {}, openConnectors |-> <<>>, usedTiles |-> <<>>]

----------------------------------------------------------------------------
(* The random-walk run: one call of buildSolution of part_001, its loop    *)
(* builders, then its attempts of tryBuildSolution step by step            *)

maxStuck == 10

\* Attempts of tryBuildSolution in a run (the program allows a hundred)
MaxWalkAttempts == 2

\* Four to five tiles drawn from the elbow tile_6 and the end cap tile_1, on
\* the ground level
WalkConfigs ==
  {[size |-> [min |-> 4, max |-> 5], mode |-> "arrange", allow3D |-> FALSE,
    maxHeight |-> 4, tilePool |-> <<6, 1>>]}

InitWalk ==
  /\ \E config \in WalkConfigs :
       walk = [config |-> config, pc |-> "buildSolution", attempt |-> 0, targetSize |-> 0,
               st |-> EmptyBuilderState, stuckCount |-> 0,
               result |-> [isNull |-> TRUE, placements |-> <<>>]]
  /\ IdleValidator /\ IdleCompat /\ puzzle = <<>> /\ IdleState /\ IdleSolve /\ IdleBuild
  /\ IdleTiles /\ IdleEnumeration /\ IdlePropagation /\ IdleGeneration
  /\ IdleRest

\* buildSolution up to its attempts: a loop or a line is returned when
\* tryBuildLoop finds one
WalkTryBuildLoop ==
  /\ walk.pc = "buildSolution"
  /\ \E loops \in {tryBuildLoop(walk.config)} :
       IF loops # {}
       THEN \E placements \in loops :
              walk' = [walk EXCEPT !.pc = "done",
                                   !.result = [isNull |-> FALSE, placements |-> placements]]
       ELSE walk' = [walk EXCEPT !.pc = "attempt"]
  /\ UNCHANGED <<restVars, tileVars, enumeration, propagation, generation, validatorVars, compatVars,
                 puzzle, stateVars, solveVars, buildVars>>

\* One pass of the attempt loop up to the seed of tryBuildSolution
WalkSeed ==
  /\ walk.pc = "attempt"
  /\ walk.attempt < MaxWalkAttempts
  /\ \E targetSize \in targetSizes(walk.config), seedTileId \in selectSeedTile(walk.config) :
       \E variants \in {seedVariants(walk.config, seedTileId)} :
          IF Len(variants) = 0
          THEN walk' = [walk EXCEPT !.attempt = @ + 1, !.targetSize = targetSize,
                                    !.st = EmptyBuilderState, !.stuckCount = 0]
          ELSE \E k \in 1..Len(variants) :
                 walk' = [walk EXCEPT
                            !.pc = "grow", !.targetSize = targetSize, !.stuckCount = 0,
                            !.st = addPlacement(EmptyBuilderState,
                                                variantToPlacement(variants[k], <<5, 0, 5>>,
                                                                   "flat"),
                                                variants[k])]
  /\ UNCHANGED <<restVars, tileVars, enumeration, propagation, generation, validatorVars, compatVars,
                 puzzle, stateVars, solveVars, buildVars>>

\* The growth loop goes on: below the target size, not stuck ten times, an
\* open connector left
growing ==
  /\ walk.pc = "grow"
  /\ Len(walk.st.placements) < walk.targetSize
  /\ walk.stuckCount < maxStuck
  /\ Len(walk.st.openConnectors) # 0

\* A pass of the growth loop that finds no candidate: the connector leaves
\* the open list
WalkStuck ==
  /\ growing
  /\ \E i \in 1..Len(walk.st.openConnectors) :
       /\ Len(findMatchingTiles(walk.st, walk.st.openConnectors[i], walk.config)) = 0
       /\ walk' = [walk EXCEPT !.stuckCount = @ + 1,
                               !.st.openConnectors = RemoveIndexes(@, {i})]
  /\ UNCHANGED <<restVars, tileVars, enumeration, propagation, generation, validatorVars, compatVars,
                 puzzle, stateVars, solveVars, buildVars>>

\* A pass of the growth loop that places a candidate
WalkExtend ==
  /\ growing
  /\ \E i \in 1..Len(walk.st.openConnectors) :
       \E selected \in selectTileWeighted(
                         findMatchingTiles(walk.st, walk.st.openConnectors[i], walk.config)) :
          walk' = [walk EXCEPT !.stuckCount = 0,
                               !.st = addPlacement(@, selected.placement, selected.variant)]
  /\ UNCHANGED <<restVars, tileVars, enumeration, propagation, generation, validatorVars, compatVars,
                 puzzle, stateVars, solveVars, buildVars>>

\* The builder state after the growth loop and closeOpenConnectors
closed ==
  closeOpenConnectors(walk.st, walk.config,
                      Max(0, walk.config.size.max - Len(walk.st.placements)))

\* tryBuildSolution returns null: open connectors are left
WalkNotClosed ==
  /\ walk.pc = "grow" /\ ~growing
  /\ \E after \in {closed} :
       /\ Len(after.openConnectors) > 0
       /\ walk' = [walk EXCEPT !.pc = "attempt", !.attempt = @ + 1, !.st = after]
  /\ UNCHANGED <<restVars, tileVars, enumeration, propagation, generation, validatorVars, compatVars,
                 puzzle, stateVars, solveVars, buildVars>>

\* tryBuildSolution returns fewer placements than config.size.min
WalkTooSmall ==
  /\ walk.pc = "grow" /\ ~growing
  /\ \E after \in {closed} :
       /\ Len(after.openConnectors) = 0
       /\ Len(after.placements) < walk.config.size.min
       /\ walk' = [walk EXCEPT !.pc = "attempt", !.attempt = @ + 1, !.st = after]
  /\ UNCHANGED <<restVars, tileVars, enumeration, propagation, generation, validatorVars, compatVars,
                 puzzle, stateVars, solveVars, buildVars>>

\* buildSolution returns what tryBuildSolution returned
WalkReturn ==
  /\ walk.pc = "grow" /\ ~growing
  /\ \E after \in {closed} :
       /\ Len(after.openConnectors) = 0
       /\ ~(Len(after.placements) < walk.config.size.min)
       /\ walk' = [walk EXCEPT !.pc = "done", !.st = after,
                               !.result = [isNull |-> FALSE,
                                           placements |-> after.placements]]
  /\ UNCHANGED <<restVars, tileVars, enumeration, propagation, generation, validatorVars, compatVars,
                 puzzle, stateVars, solveVars, buildVars>>

\* buildSolution returns null after its last attempt
WalkGiveUp ==
  /\ walk.pc = "attempt"
  /\ ~(walk.attempt < MaxWalkAttempts)
  /\ walk' = [walk EXCEPT !.pc = "done", !.result = [isNull |-> TRUE, placements |-> <<>>]]
  /\ UNCHANGED <<restVars, tileVars, enumeration, propagation, generation, validatorVars, compatVars,
                 puzzle, stateVars, solveVars, buildVars>>

NextWalk ==
  \/ WalkTryBuildLoop
  \/ WalkSeed
  \/ WalkStuck
  \/ WalkExtend
  \/ WalkNotClosed
  \/ WalkTooSmall
  \/ WalkReturn
  \/ WalkGiveUp

SpecWalk == InitWalk /\ [][NextWalk]_vars

\* The connectors of the returned placements, each with its placement and
\* its world position
returnedConnectors ==
  {[tile |-> i, worldPos |-> builderConnectorWorldPos(walk.result.placements[i].cell, c)] :
     <<i, c>> \in UNION {{i} \X Range(variantConnectorList(walk.result.placements[i])) :
                           i \in 1..Len(walk.result.placements)}}

\* C21: a network returned by tryBuildSolution has no open connector:
\* every connector of a returned placement lies on a connector of another
\* returned placement
C21_ReturnedNetworkIsClosed ==
  (walk.pc = "done" /\ ~walk.result.isNull) =>
    \A c \in returnedConnectors :
       \E d \in returnedConnectors : d.tile # c.tile /\ samePosition(c.worldPos, d.worldPos)

\* C22: every solution buildSolution returns is valid for
\* validateConnections
C22_ReturnedSolutionValidates ==
  (walk.pc = "done" /\ ~walk.result.isNull) =>
    validateConnections([i \in 1..Len(walk.result.placements) |->
                           placementToPlacedTile(walk.result.placements[i])]).valid

----------------------------------------------------------------------------
(* Puzzle derivation and generation:                                       *)
(* src/src/puzzle/generator/PuzzleDeriver.ts, generator/index.ts           *)

\* The ratio in tenths
difficultyToRemoveRatio(difficulty) ==
  CASE difficulty = "easy" -> 2
    [] difficulty = "medium" -> 4
    [] difficulty = "hard" -> 6
    [] difficulty = "expert" -> 8
    [] OTHER -> 4

countNeighbors(placements, i) ==
  Cardinality({j \in 1..Len(placements) :
                 /\ j # i
                 /\ LET d == [c \in 1..3 |-> Abs(placements[j].cell[c] - placements[i].cell[c])]
                    IN  d \in {<<1, 0, 0>>, <<0, 1, 0>>, <<0, 0, 1>>}})

\* scoreForRemoval without the random part, which is below 0.5
scoreForRemoval(placements, i) ==
  (IF countNeighbors(placements, i) >= 2 THEN 2 ELSE 0)
  + (IF placements[i].cell[2] > 0 THEN 1 ELSE 0)
  + (IF Cardinality({j \in 1..Len(placements) :
                       placements[j].tileId = placements[i].tileId}) > 1 THEN 1 ELSE 0)

\* selectTilesToRemove that takes the first placement only
selectTilesToRemoveOne(placements, count) == {<<1>>}

\* The index lists selectTilesToRemove can return: the first count places of
\* a descending order of the scores, where the random part orders the
\* placements of equal whole score
selectTilesToRemove(placements, count) ==
  IF count >= Len(placements) THEN {[k \in 1..Len(placements) |-> k]}
  ELSE {q \in [1..count -> 1..Len(placements)] :
          /\ \A a, b \in 1..count : a < b =>
                /\ q[a] # q[b]
                /\ scoreForRemoval(placements, q[a]) >= scoreForRemoval(placements, q[b])
          /\ \A a \in 1..count : \A j \in 1..Len(placements) :
                (\A b \in 1..count : q[b] # j) =>
                   scoreForRemoval(placements, q[a]) >= scoreForRemoval(placements, j)}

\* The puzzles deriveCompletePuzzle can return
deriveCompletePuzzle(solution, difficulty) ==
  {[mode |-> "complete",
    tiles |-> placementsToTileSpecs([k \in 1..Len(toRemove) |->
                                       solution.placements[toRemove[k]]]),
    fixedPlacements |-> RemoveIndexes(solution.placements, Range(toRemove)),
    gridBounds |-> computeBounds(solution.placements)] :
     toRemove \in selectTilesToRemove(
                    solution.placements,
                    Max(1, (Len(solution.placements)
                              * difficultyToRemoveRatio(difficulty)) \div 10))}

\* The puzzles derivePuzzle can return
derivePuzzle(solution, config) ==
  IF config.mode = "complete" THEN deriveCompletePuzzle(solution, config.difficulty)
  ELSE {deriveArrangePuzzle(solution, TRUE)}

\* What buildSolution can return for a config from a start cell: the
\* placement lists, and whether it can return null
buildSolutionResults(config, startX, startZ) ==
  LET ResultsOf(outcomes) ==
        [solutions |-> UNION {outcomes[k].returns : k \in 1..Len(outcomes)},
         null |-> \A k \in 1..Len(outcomes) : outcomes[k].fails]
  IN  CHOOSE r \in {ResultsOf(outcomes) :
                      outcomes \in {builtOutcomes(config,
                                                  buildOptions(config, startX, startZ),
                                                  startX, startZ)}} : TRUE

----------------------------------------------------------------------------
(* The generation run: one call of generatePuzzle, attempt by attempt *)

\* Attempts of generatePuzzle in a run (the program allows fifty)
MaxGenAttempts == 2

\* Complete-the-grid puzzles of one to four tiles at every difficulty, and
\* arrange puzzles of one or two tiles
GenConfigs ==
  {[size |-> [min |-> n, max |-> n], mode |-> "complete", difficulty |-> d,
    allow3D |-> FALSE, requireUniqueSolution |-> u] :
     n \in 1..MaxBuildSize, d \in {"easy", "medium", "hard", "expert"}, u \in BOOLEAN}
  \cup {[size |-> [min |-> n, max |-> n], mode |-> "arrange", difficulty |-> "medium",
         allow3D |-> FALSE, requireUniqueSolution |-> u] : n \in 1..2, u \in BOOLEAN}

InitGenerate ==
  /\ \E size \in {c.size : c \in GenConfigs}, start \in BuildStarts :
       \* buildSolution reads the size of the config only
       \E b \in {buildSolutionResults([size |-> size], start[1], start[2])} :
         \E config \in {c \in GenConfigs : c.size = size} :
           generation = [config |-> config, attempt |-> 0, pc |-> "loop",
                         built |-> b,
                         solution |-> <<>>,
                         result |-> [isNull |-> TRUE, puzzle |-> <<>>]]
  /\ IdleValidator /\ IdleCompat /\ puzzle = <<>> /\ IdleState /\ IdleSolve /\ IdleBuild
  /\ IdleTiles /\ IdleEnumeration /\ IdlePropagation /\ IdleWalk
  /\ IdleRest

\* A pass of the attempt loop in which buildSolution returns null
GenNoSolution ==
  /\ generation.pc = "loop"
  /\ generation.attempt < MaxGenAttempts
  /\ generation.built.null
  /\ generation' = [generation EXCEPT !.attempt = @ + 1]
  /\ UNCHANGED <<restVars, tileVars, enumeration, propagation, walk, validatorVars, compatVars,
                 puzzle, stateVars, solveVars, buildVars>>

\* A pass in which buildSolution returns a solution: a solution below the
\* size asked is passed over, else the derived puzzle is returned
GenDerive ==
  /\ generation.pc = "loop"
  /\ generation.attempt < MaxGenAttempts
  /\ \E placements \in generation.built.solutions :
       IF Len(placements) < generation.config.size.min
       THEN generation' = [generation EXCEPT !.attempt = @ + 1]
       ELSE \E derived \in derivePuzzle([placements |-> placements], generation.config) :
              generation' = [generation EXCEPT
                               !.pc = "done", !.solution = placements,
                               !.result = [isNull |-> FALSE, puzzle |-> derived]]
  /\ UNCHANGED <<restVars, tileVars, enumeration, propagation, walk, validatorVars, compatVars,
                 puzzle, stateVars, solveVars, buildVars>>

\* generatePuzzle returns null after its last attempt
GenGiveUp ==
  /\ generation.pc = "loop"
  /\ ~(generation.attempt < MaxGenAttempts)
  /\ generation' = [generation EXCEPT !.pc = "done",
                                      !.result = [isNull |-> TRUE, puzzle |-> <<>>]]
  /\ UNCHANGED <<restVars, tileVars, enumeration, propagation, walk, validatorVars, compatVars,
                 puzzle, stateVars, solveVars, buildVars>>

NextGenerate ==
  \/ GenNoSolution
  \/ GenDerive
  \/ GenGiveUp

SpecGenerate == InitGenerate /\ [][NextGenerate]_vars

\* The placements that put one tile of the inventory of a puzzle on a free
\* slot of its bounds
freePlacements(pz) ==
  {variantToPlacement(v, key[1], key[2]) :
     <<key, v>> \in {q \in Range(SlotKeys(pz.gridBounds))
                            \X UNION {Range(getTileVariants(pz.tiles[k].tileId)) :
                                        k \in 1..Len(pz.tiles)} :
                       /\ q[2].orientation = q[1][2]
                       /\ \A i \in 1..Len(pz.fixedPlacements) :
                             placementKey(pz.fixedPlacements[i]) # q[1]}}

\* The solutions of a puzzle that has one tile to place: the placements of
\* that tile that leave no connector open
singleTileSolutions(pz) ==
  {p \in freePlacements(pz) :
     validateConnections([i \in 1..(Len(pz.fixedPlacements) + 1) |->
                            placementToPlacedTile(IF i <= Len(pz.fixedPlacements)
                                                  THEN pz.fixedPlacements[i] ELSE p)]).valid}

\* C23: every puzzle generatePuzzle returns for a config with
\* requireUniqueSolution set has exactly one solution (stated for the
\* returned puzzles with one tile to place)
C23_GeneratedPuzzleIsUnique ==
  (/\ generation.pc = "done" /\ ~generation.result.isNull
   /\ generation.config.requireUniqueSolution
   /\ Len(generation.result.puzzle.tiles) = 1
   /\ generation.result.puzzle.tiles[1].count = 1)
    => Cardinality(singleTileSolutions(generation.result.puzzle)) = 1

----------------------------------------------------------------------------
(* The builder's edge logic and the variant table, each beside the        *)
(* validator, for one placed tile                                          *)

\* The variables of the runs above, which the runs below leave alone
coreVars == <<validatorVars, compatVars, puzzle, stateVars, solveVars, buildVars,
              tileVars, enumeration, generatorVars>>

IdleCore ==
  /\ IdleValidator /\ IdleCompat /\ puzzle = <<>> /\ IdleState /\ IdleSolve /\ IdleBuild
  /\ IdleTiles /\ IdleEnumeration /\ IdlePropagation /\ IdleWalk /\ IdleGeneration

\* Cells a tile is placed in
GeometryCells == {<<0, 0, 0>>, <<2, 1, 3>>}

\* getVariant(key) where the key was kept, else the kept variant of the tile
\* that took its signature
matchingVariant(key) ==
  CHOOSE v \in Range(getTileVariants(key.tileId)) :
    /\ v.orientation = key.orientation
    /\ getConnectorSignature(variantConnectors(v)) =
         getConnectorSignature(variantConnectors(key))

InitGeometry ==
  /\ \E tileId \in TileIds, rotation \in Range(ROTATIONS), flipped \in BOOLEAN,
        orientation \in Range(ORIENTATIONS), cell \in GeometryCells :
       geometry = [tile |-> [definition |-> tileId, position |-> cell,
                             rotation |-> rotation, flipped |-> flipped,
                             orientation |-> orientation],
                   asked |-> {},
                   edges |-> [e \in Range(EDGES) |-> "none"],
                   connectors |-> {},
                   variant |-> <<>>,
                   offsets |-> {}]
  /\ game = <<>> /\ unionFind = <<>>
  /\ IdleCore

\* The builder reads the four world edges of the flat tile
GeoWorldEdges ==
  /\ "builder" \notin geometry.asked
  /\ geometry.tile.orientation = "flat"
  /\ geometry' = [geometry EXCEPT
                    !.asked = @ \cup {"builder"},
                    !.edges = [e \in Range(EDGES) |->
                                 getWorldEdgeConnectorWithFlip(
                                   getTileConfig(geometry.tile.definition), e,
                                   geometry.tile.rotation, geometry.tile.flipped)]]
  /\ UNCHANGED <<coreVars, game, unionFind>>

\* The validator computes the connectors of the placed tile
GeoTileConnectors ==
  /\ "validator" \notin geometry.asked
  /\ geometry' = [geometry EXCEPT
                    !.asked = @ \cup {"validator"},
                    !.connectors = getTileConnectors(<<geometry.tile>>, 1)]
  /\ UNCHANGED <<coreVars, game, unionFind>>

\* The variant of the placed tile is looked up in the precomputed table
GeoVariant ==
  /\ "table" \notin geometry.asked
  /\ \E v \in {matchingVariant(variantKey(geometry.tile.definition, geometry.tile.rotation,
                                          geometry.tile.flipped,
                                          geometry.tile.orientation))} :
       geometry' = [geometry EXCEPT
                      !.asked = @ \cup {"table"},
                      !.variant = v,
                      !.offsets = variantConnectors(v)]
  /\ UNCHANGED <<coreVars, game, unionFind>>

NextGeometry ==
  \/ GeoWorldEdges
  \/ GeoTileConnectors
  \/ GeoVariant

SpecGeometry == InitGeometry /\ [][NextGeometry]_vars

\* The world point of position p on world edge e of a cell: where the
\* validator puts that connector of a flat tile lying unturned in the cell
edgePoint(cell, e, p) ==
  getConnectorWorldPos([position |-> cell, rotation |-> 0, flipped |-> FALSE,
                        orientation |-> "flat"], e, p)

\* C32: for every catalog tile, rotation, flip state and world edge,
\* getWorldEdgeConnectorWithFlip reports position p on edge e exactly when
\* the validator places a connector of that flat tile at the world point of
\* position p on edge e
C32_BuilderEdgesAgreeWithValidator ==
  ({"builder", "validator"} \subseteq geometry.asked) =>
    \A e \in Range(EDGES) : \A p \in {"left", "middle", "right"} :
      (geometry.edges[e] = p)
        <=> (\E c \in geometry.connectors :
               c.w = edgePoint(geometry.tile.position, e, p))

\* A cell coordinate plus an offset of the variant table, as a world point
cellPlusOffset(cell, offset) ==
  [wx |-> 100 * cell[1] + offset[1], wy |-> 100 * cell[2] + offset[2],
   wz |-> 100 * cell[3] + offset[3]]

\* C33: for every tile, rotation, flip, mounting orientation and cell, the
\* cell coordinate plus each precomputed connector offset of the matching
\* variant equals the world position the validator computes for that
\* connector of the same placed tile (connector by connector where the
\* variant kept is the placed one, as the same set of points where the
\* table kept another variant under the same signature)
C33_VariantTableAgreesWithValidator ==
  ({"table", "validator"} \subseteq geometry.asked) =>
    /\ {cellPlusOffset(geometry.tile.position, c.worldOffset) : c \in geometry.offsets}
         = {c.w : c \in geometry.connectors}
    /\ (/\ geometry.variant.rotation = geometry.tile.rotation
        /\ geometry.variant.flipped = geometry.tile.flipped)
         => \A c \in geometry.offsets :
              \E d \in geometry.connectors :
                /\ d.edge = c.edge
                /\ d.w = cellPlusOffset(geometry.tile.position, c.worldOffset)

\* A turned, flipped, edge-mounted tile with two connectors or more, away
\* from the origin, was looked up in the table and given to the validator
C33_Witness ==
  /\ {"table", "validator"} \subseteq geometry.asked
  /\ geometry.tile.orientation = "vertical-z"
  /\ geometry.tile.rotation = 90
  /\ geometry.tile.flipped
  /\ geometry.tile.position = <<2, 1, 3>>
  /\ geometry.variant.rotation = 90 /\ geometry.variant.flipped
  /\ Cardinality(geometry.offsets) >= 2
  /\ Cardinality(geometry.connectors) = Cardinality(geometry.offsets)

\* How many placements of a list are of a shape
shapeCount(placements, tileId) ==
  Cardinality({i \in 1..Len(placements) : placements[i].tileId = tileId})

\* How many tiles of a shape an inventory holds
inventoryCount(specs, tileId) ==
  SeqSum([k \in 1..Len(specs) |-> IF specs[k].tileId = tileId THEN specs[k].count ELSE 0])

SolutionInsideBounds ==
  \A i \in 1..Len(generation.solution) : \A c \in 1..3 :
     /\ generation.result.puzzle.gridBounds.min[c] <= generation.solution[i].cell[c]
     /\ generation.solution[i].cell[c] <= generation.result.puzzle.gridBounds.max[c]

FixedFromSolution ==
  Range(generation.result.puzzle.fixedPlacements) \subseteq Range(generation.solution)

ShapesOfSolution ==
  \A t \in TileIds :
     shapeCount(generation.result.puzzle.fixedPlacements, t)
       + inventoryCount(generation.result.puzzle.tiles, t)
     = shapeCount(generation.solution, t)

\* C34: for every puzzle produced by derivePuzzle, all placements of the
\* originating solution lie inside the puzzle bounds, the fixed placements
\* are a subset of that solution, and the shapes of the fixed placements
\* together with the inventory form exactly the multiset of shapes of the
\* originating solution
C34_DerivedPuzzleSolvableByConstruction ==
  (generation.pc = "done" /\ ~generation.result.isNull) =>
    /\ SolutionInsideBounds
    /\ FixedFromSolution
    /\ ShapesOfSolution

\* The tiles an inventory holds
inventoryTotal(specs) == SeqSum([k \in 1..Len(specs) |-> specs[k].count])

\* C35: deriveCompletePuzzle partitions the solution: every solution
\* placement is either a fixed placement or counted exactly once in the
\* inventory, never both, and the inventory total is max(1, floor(n x ratio))
\* for the removal ratio of the difficulty (at most n), so at least one tile
\* is removed
C35_CompletePuzzlePartitionsSolution ==
  (/\ generation.pc = "done" /\ ~generation.result.isNull
   /\ generation.config.mode = "complete")
    => LET n == Len(generation.solution)
           pz == generation.result.puzzle
           asked == Max(1, (n * difficultyToRemoveRatio(generation.config.difficulty)) \div 10)
       IN  /\ inventoryTotal(pz.tiles) = Min(asked, n)
           /\ inventoryTotal(pz.tiles) >= 1
           /\ Len(pz.fixedPlacements) + inventoryTotal(pz.tiles) = n
           /\ \A i, j \in 1..Len(pz.fixedPlacements) :
                 i # j => pz.fixedPlacements[i] # pz.fixedPlacements[j]
           /\ FixedFromSolution
           /\ ShapesOfSolution

\* A complete puzzle was derived with two tiles or more taken out and a
\* tile kept
C35_Witness ==
  /\ generation.pc = "done" /\ ~generation.result.isNull
  /\ generation.config.mode = "complete"
  /\ inventoryTotal(generation.result.puzzle.tiles) >= 2
  /\ Len(generation.result.puzzle.fixedPlacements) >= 1

----------------------------------------------------------------------------
(* The board: src/src/board/Grid.ts.  The three maps flatTiles, edgeTilesX *)
(* and edgeTilesZ are one map keyed by the cell and the orientation        *)

gridSize == [x |-> 10, y |-> 5, z |-> 10]

slotKey(cell, orientation) == <<cell, orientation>>

tileSlot(placed) == slotKey(placed.position, placed.orientation)

gridIsInBounds(cell) ==
  /\ cell[1] >= 0 /\ cell[1] < gridSize.x
  /\ cell[2] >= 0 /\ cell[2] < gridSize.y
  /\ cell[3] >= 0 /\ cell[3] < gridSize.z

\* The supports counted for a flat tile at a cell: the vertical-x tiles one
\* level below on its left and right edge, the vertical-z tiles one level
\* below on its front and back edge
supportSlots(cell) ==
  {slotKey(<<cell[1] - 1, cell[2] - 1, cell[3]>>, "vertical-x"),
   slotKey(<<cell[1], cell[2] - 1, cell[3]>>, "vertical-x"),
   slotKey(<<cell[1], cell[2] - 1, cell[3] - 1>>, "vertical-z"),
   slotKey(<<cell[1], cell[2] - 1, cell[3]>>, "vertical-z")}

hasVerticalSupport(grd, cell) ==
  Cardinality(supportSlots(cell) \cap DOMAIN grd) >= 2

\* canPlaceTile without the support rules
canPlaceTileAnywhere(grd, cell, orientation) ==
  /\ gridIsInBounds(cell)
  /\ slotKey(cell, orientation) \notin DOMAIN grd

canPlaceTile(grd, cell, orientation) ==
  IF ~gridIsInBounds(cell) THEN FALSE
  ELSE IF slotKey(cell, orientation) \in DOMAIN grd THEN FALSE
  ELSE IF cell[2] = 0 THEN TRUE
  ELSE IF orientation = "flat" THEN hasVerticalSupport(grd, cell)
  ELSE slotKey(<<cell[1], cell[2] - 1, cell[3]>>, "flat") \in DOMAIN grd

\* What placeTile returns and the map it leaves
placeTile(grd, placed) ==
  IF ~canPlaceTile(grd, placed.position, placed.orientation)
  THEN [ok |-> FALSE, grid |-> grd]
  ELSE [ok |-> TRUE, grid |-> MapSet(grd, tileSlot(placed), placed)]

\* grid.placeTile for each tile of a list in turn, the results ignored
RECURSIVE placeEach(_, _)
placeEach(grd, list) ==
  IF list = <<>> THEN grd
  ELSE placeEach(placeTile(grd, Head(list)).grid, Tail(list))

----------------------------------------------------------------------------
(* The game: src/unnamed/part_009 (game/Game)                              *)

mapDelete(f, k) == [x \in DOMAIN f \ {k} |-> f[x]]

removeTileFromGrid(grd, placed) == mapDelete(grd, tileSlot(placed))

getTileByKey(grd, cell, orientation) ==
  IF slotKey(cell, orientation) \in DOMAIN grd
  THEN {grd[slotKey(cell, orientation)]} ELSE {}

\* currentPuzzle and currentSolution when they are null
NoPuzzle == [mode |-> "none", tiles |-> <<>>, fixedPlacements |-> <<>>]
NoSolution == [placements |-> <<>>]

fixedKeys(pz) ==
  {slotKey(pz.fixedPlacements[i].cell, pz.fixedPlacements[i].orientation) :
     i \in 1..Len(pz.fixedPlacements)}

canPlacePuzzleTile(g, tileId) ==
  IF ~g.puzzleMode THEN TRUE
  ELSE (IF tileId \in DOMAIN g.puzzleTilesRemaining
        THEN g.puzzleTilesRemaining[tileId] ELSE 0) > 0

onPuzzleTilePlaced(g, tileId) ==
  IF ~g.puzzleMode THEN g
  ELSE [g EXCEPT !.puzzleTilesRemaining =
          MapSet(@, tileId, (IF tileId \in DOMAIN @ THEN @[tileId] ELSE 1) - 1)]

onPuzzleTileRemoved(g, tileId) ==
  IF ~g.puzzleMode THEN g
  ELSE [g EXCEPT !.puzzleTilesRemaining =
          MapSet(@, tileId, (IF tileId \in DOMAIN @ THEN @[tileId] ELSE 0) + 1)]

\* clearBoardKeepFixed that clears the whole board
clearBoardKeepNothing(g) == [g EXCEPT !.grid = <<>>]

clearBoardKeepFixed(g) ==
  [g EXCEPT !.grid = [k \in DOMAIN @ \cap fixedKeys(g.currentPuzzle) |-> @[k]]]

\* The tiles of a map as a list: the flat tiles, then the vertical-x tiles,
\* then the vertical-z tiles (within a map the order is that of insertion,
\* which no later step depends on)
RECURSIVE tileList(_, _)
tileList(grd, keys) ==
  IF keys = {} THEN <<>>
  ELSE LET rank(k) == CASE k[2] = "flat" -> 0 [] k[2] = "vertical-x" -> 1 [] OTHER -> 2
           first == CHOOSE k \in keys : \A o \in keys : rank(k) <= rank(o)
       IN  <<grd[first]>> \o tileList(grd, keys \ {first})

\* The entries of puzzle.tiles written into the map one after the other
RECURSIVE setRemaining(_, _)
setRemaining(remaining, specs) ==
  IF specs = <<>> THEN remaining
  ELSE setRemaining(MapSet(remaining, Head(specs).tileId, Head(specs).count), Tail(specs))

\* The fixed placements put on the board one after the other, each taken
\* off the remaining count of its shape
RECURSIVE placeFixed(_, _)
placeFixed(g, fixedPlacements) ==
  IF fixedPlacements = <<>> THEN g
  ELSE LET p == Head(fixedPlacements)
           remaining == IF p.tileId \in DOMAIN g.puzzleTilesRemaining
                        THEN g.puzzleTilesRemaining[p.tileId] ELSE 0
       IN  placeFixed(
             IF p.tileId \notin TileIds THEN g
             ELSE [g EXCEPT !.grid = placeTile(@, placementToPlacedTile(p)).grid,
                            !.puzzleTilesRemaining =
                               MapSet(@, p.tileId, Max(0, remaining - 1))],
             Tail(fixedPlacements))

\* enterPuzzleMode with the puzzle and solution generatePuzzleWithSolution
\* returned
enterPuzzleMode(g, generated) ==
  placeFixed([g EXCEPT !.puzzleMode = TRUE,
                       !.currentPuzzle = generated.puzzle,
                       !.currentSolution = generated.solution,
                       !.grid = <<>>,
                       !.undoStack = <<>>,
                       !.puzzleTilesRemaining = setRemaining(<<>>, generated.puzzle.tiles)],
             generated.puzzle.fixedPlacements)

exitPuzzleMode(g) ==
  [g EXCEPT !.puzzleMode = FALSE, !.currentPuzzle = NoPuzzle,
            !.currentSolution = NoSolution, !.puzzleTilesRemaining = <<>>]

\* onClick with a tile selected and the pointer over a cell; the game is
\* left as it is where onClick returns early
onClick(g, selectedTileType, hoverPosition, currentOrientation, currentRotation, currentFlipped) ==
  LET placedTile == [definition |-> selectedTileType, position |-> hoverPosition,
                     rotation |-> currentRotation, flipped |-> currentFlipped,
                     orientation |-> currentOrientation]
      put == placeTile(g.grid, placedTile)
  IN  IF ~canPlaceTile(g.grid, hoverPosition, currentOrientation) THEN g
      ELSE IF g.puzzleMode /\ ~canPlacePuzzleTile(g, selectedTileType) THEN g
      ELSE IF ~put.ok THEN g
      ELSE onPuzzleTilePlaced(
             [g EXCEPT !.grid = put.grid,
                       !.undoStack = Append(@, [action |-> "place", tile |-> placedTile])],
             selectedTileType)

\* deleteAtHover with the pointer over a cell
deleteAtHover(g, hoverPosition, currentOrientation) ==
  LET found1 == getTileByKey(g.grid, hoverPosition, currentOrientation)
      isFixed == \E i \in 1..Len(g.currentPuzzle.fixedPlacements) :
                   /\ g.currentPuzzle.fixedPlacements[i].cell = hoverPosition
                   /\ g.currentPuzzle.fixedPlacements[i].orientation = currentOrientation
  IN  IF found1 = {} THEN g
      ELSE IF g.puzzleMode /\ g.currentPuzzle # NoPuzzle /\ isFixed THEN g
      ELSE LET placed == CHOOSE t \in found1 : TRUE
           IN  onPuzzleTileRemoved(
                 [g EXCEPT !.grid = removeTileFromGrid(@, placed),
                           !.undoStack = Append(@, [action |-> "delete", tile |-> placed])],
                 placed.definition)

undo(g) ==
  IF g.undoStack = <<>> THEN g
  ELSE LET lastAction == g.undoStack[Len(g.undoStack)]
           popped == [g EXCEPT !.undoStack = SubSeq(@, 1, Len(@) - 1)]
       IN  CASE lastAction.action = "place" ->
                  onPuzzleTileRemoved(
                    [popped EXCEPT !.grid = removeTileFromGrid(@, lastAction.tile)],
                    lastAction.tile.definition)
             [] lastAction.action = "delete" ->
                  onPuzzleTilePlaced(
                    [popped EXCEPT !.grid = placeTile(@, lastAction.tile).grid],
                    lastAction.tile.definition)
             [] lastAction.action = "reveal" ->
                  [clearBoardKeepFixed(popped) EXCEPT
                     !.grid = placeEach(@, lastAction.previousTiles),
                     !.puzzleTilesRemaining = lastAction.previousRemaining]

\* The placements of the solution revealSolution puts on the board: those
\* of a known tile that are on no fixed slot
RECURSIVE revealedTiles(_, _)
revealedTiles(placements, fixed) ==
  IF placements = <<>> THEN <<>>
  ELSE (IF slotKey(Head(placements).cell, Head(placements).orientation) \in fixed
           \/ Head(placements).tileId \notin TileIds
        THEN <<>> ELSE <<placementToPlacedTile(Head(placements))>>)
       \o revealedTiles(Tail(placements), fixed)

\* The remaining count of every entry of puzzle.tiles set to zero
RECURSIVE clearRemaining(_, _)
clearRemaining(remaining, specs) ==
  IF specs = <<>> THEN remaining
  ELSE clearRemaining(MapSet(remaining, Head(specs).tileId, 0), Tail(specs))

revealSolution(g) ==
  IF ~g.puzzleMode \/ g.currentSolution = NoSolution \/ g.currentPuzzle = NoPuzzle THEN g
  ELSE LET fixed == fixedKeys(g.currentPuzzle)
           previousTiles == tileList(g.grid, DOMAIN g.grid \ fixed)
           pushed == [g EXCEPT !.undoStack =
                        Append(@, [action |-> "reveal", previousTiles |-> previousTiles,
                                   previousRemaining |-> g.puzzleTilesRemaining])]
       IN  [clearBoardKeepFixed(pushed) EXCEPT
              !.grid = placeEach(@, revealedTiles(g.currentSolution.placements, fixed)),
              !.puzzleTilesRemaining = clearRemaining(@, g.currentPuzzle.tiles)]

----------------------------------------------------------------------------
(* The game run: a game is made, puzzles are started and left, tiles are  *)
(* placed, deleted, revealed and taken back                                *)

\* Entries the undo history holds at most in a run
MaxUndo == 4

\* The cells the pointer is over when the player clicks or deletes
HoverCells == {<<5, 0, 6>>, <<5, 1, 6>>}

\* The tiles the player selects: the end cap tile_1 and the straight tile_19
\* of the puzzle, and tile_0, which is not part of it
SelectedTiles == {0, 1, 19}

\* A line buildSolution returns for the size 4..4 from the start cell (6, 6)
LineOfFour ==
  <<[tileId |-> 1, cell |-> <<6, 0, 6>>, rotation |-> 0, flipped |-> FALSE,
     orientation |-> "flat"],
    [tileId |-> 19, cell |-> <<5, 0, 6>>, rotation |-> 0, flipped |-> FALSE,
     orientation |-> "flat"],
    [tileId |-> 19, cell |-> <<4, 0, 6>>, rotation |-> 0, flipped |-> FALSE,
     orientation |-> "flat"],
    [tileId |-> 1, cell |-> <<3, 0, 6>>, rotation |-> 180, flipped |-> FALSE,
     orientation |-> "flat"]>>

\* What generatePuzzleWithSolution returns to the game (mode arrange)
GeneratedPuzzles ==
  {[puzzle |-> pz, solution |-> [placements |-> LineOfFour]] :
     pz \in derivePuzzle([placements |-> LineOfFour],
                         [size |-> [min |-> 4, max |-> 4], mode |-> "arrange",
                          allow3D |-> FALSE])}

InitGame ==
  /\ game = [puzzleMode |-> FALSE, currentPuzzle |-> NoPuzzle,
             currentSolution |-> NoSolution, puzzleTilesRemaining |-> <<>>,
             grid |-> <<>>, undoStack |-> <<>>, entered |-> <<>>]
  /\ geometry = <<>> /\ unionFind = <<>>
  /\ IdleCore

\* startPuzzle, or togglePuzzleMode outside puzzle mode, with a puzzle
\* generated; entered keeps the counts set on entering
StartPuzzle ==
  /\ \E generated \in GeneratedPuzzles :
       \E g \in {enterPuzzleMode(IF game.puzzleMode THEN exitPuzzleMode(game) ELSE game,
                                 generated)} :
         game' = [g EXCEPT !.entered = g.puzzleTilesRemaining]
  /\ UNCHANGED <<coreVars, geometry, unionFind>>

\* togglePuzzleMode in puzzle mode
ExitPuzzle ==
  /\ game.puzzleMode
  /\ game' = exitPuzzleMode(game)
  /\ UNCHANGED <<coreVars, geometry, unionFind>>

Click ==
  /\ Len(game.undoStack) < MaxUndo
  /\ \E selectedTileType \in SelectedTiles, hoverPosition \in HoverCells,
        currentOrientation \in Range(ORIENTATIONS) :
       game' = onClick(game, selectedTileType, hoverPosition, currentOrientation, 0, FALSE)
  /\ UNCHANGED <<coreVars, geometry, unionFind>>

DeleteAtHover ==
  /\ Len(game.undoStack) < MaxUndo
  /\ \E hoverPosition \in HoverCells, currentOrientation \in Range(ORIENTATIONS) :
       game' = deleteAtHover(game, hoverPosition, currentOrientation)
  /\ UNCHANGED <<coreVars, geometry, unionFind>>

Undo ==
  /\ game' = undo(game)
  /\ UNCHANGED <<coreVars, geometry, unionFind>>

RevealSolution ==
  /\ Len(game.undoStack) < MaxUndo
  /\ game' = revealSolution(game)
  /\ UNCHANGED <<coreVars, geometry, unionFind>>

NextGame ==
  \/ StartPuzzle
  \/ ExitPuzzle
  \/ Click
  \/ DeleteAtHover
  \/ Undo
  \/ RevealSolution

SpecGame == InitGame /\ [][NextGame]_vars

\* The tiles of a shape on the board that are on no fixed slot
placedCount(g, tileId) ==
  Cardinality({k \in DOMAIN g.grid \ fixedKeys(g.currentPuzzle) :
                 g.grid[k].definition = tileId})

\* C36: in puzzle mode, after any sequence of placements, deletions, undos
\* and reveals, the remaining counter of every shape of the puzzle is
\* non-negative and equals the count set on entering the puzzle minus the
\* number of non-fixed tiles of that shape on the board
C36_RemainingMatchesBoard ==
  game.puzzleMode =>
    \A k \in 1..Len(game.currentPuzzle.tiles) :
      LET t == game.currentPuzzle.tiles[k].tileId
      IN  /\ t \in DOMAIN game.puzzleTilesRemaining
          /\ game.puzzleTilesRemaining[t] >= 0
          /\ game.puzzleTilesRemaining[t] = game.entered[t] - placedCount(game, t)

\* C37: in puzzle mode, after any sequence of placements, deletions, undos,
\* board resets and reveals, every fixed placement of the puzzle is on the
\* board in its slot
C37_FixedPlacementsStay ==
  game.puzzleMode =>
    \A i \in 1..Len(game.currentPuzzle.fixedPlacements) :
      LET p == game.currentPuzzle.fixedPlacements[i]
      IN  /\ slotKey(p.cell, p.orientation) \in DOMAIN game.grid
          /\ game.grid[slotKey(p.cell, p.orientation)] = placementToPlacedTile(p)

\* The solution was revealed in a puzzle whose fixed tile is in a cell the
\* pointer passes over, and the fixed tile is on the board with the rest
C37_Witness ==
  /\ game.puzzleMode
  /\ Len(game.currentPuzzle.fixedPlacements) = 1
  /\ game.currentPuzzle.fixedPlacements[1].cell \in HoverCells
  /\ slotKey(game.currentPuzzle.fixedPlacements[1].cell, "flat") \in DOMAIN game.grid
  /\ Cardinality(DOMAIN game.grid) >= 4
  /\ game.undoStack # <<>>
  /\ game.undoStack[Len(game.undoStack)].action = "reveal"

\* C38: the board keeps its support rules after any sequence of placements,
\* deletions and undos: no slot holds two tiles, every edge-mounted tile
\* above ground level has a flat tile in the cell below, and every flat tile
\* above ground level has two supporting edge-mounted tiles or more
C38_BoardKeepsSupportRules ==
  \A k \in DOMAIN game.grid :
    /\ tileSlot(game.grid[k]) = k
    /\ (k[1][2] > 0 /\ k[2] # "flat")
         => slotKey(<<k[1][1], k[1][2] - 1, k[1][3]>>, "flat") \in DOMAIN game.grid
    /\ (k[1][2] > 0 /\ k[2] = "flat") => hasVerticalSupport(game.grid, k[1])

----------------------------------------------------------------------------
(* UnionFind: src/unnamed/part_002 (solver/UnionFind)                      *)

\* The first loop of find: parent followed up to the element that is its
\* own parent
RECURSIVE rootOf(_, _)
rootOf(parent, x) == IF parent[x] = x THEN x ELSE rootOf(parent, parent[x])

\* The second loop of find: every element on the way from x to the root is
\* pointed at the root
RECURSIVE compress(_, _, _)
compress(parent, current, root) ==
  IF current = root THEN parent
  ELSE compress(MapSet(parent, current, root), parent[current], root)

\* What find returns and the object it leaves
ufFind(uf, x) ==
  IF x \notin DOMAIN uf.parent THEN [root |-> x, uf |-> UnionFindAdd(uf, x)]
  ELSE [root |-> rootOf(uf.parent, x),
        uf |-> [uf EXCEPT !.parent = compress(@, x, rootOf(uf.parent, x))]]

\* union that leaves the component count as it was
ufUnionKeepsCount(uf, x, y) ==
  LET fx == ufFind(uf, x)
      fy == ufFind(fx.uf, y)
  IN  IF fx.root = fy.root THEN [ok |-> FALSE, uf |-> fy.uf]
      ELSE [ok |-> TRUE, uf |-> [fy.uf EXCEPT !.parent = MapSet(@, fy.root, fx.root)]]

\* What union returns and the object it leaves
ufUnion(uf, x, y) ==
  LET fx == ufFind(uf, x)
      fy == ufFind(fx.uf, y)
      rootX == fx.root
      rootY == fy.root
      rankX == fy.uf.rank[rootX]
      rankY == fy.uf.rank[rootY]
  IN  IF rootX = rootY THEN [ok |-> FALSE, uf |-> fy.uf]
      ELSE [ok |-> TRUE,
            uf |-> [fy.uf EXCEPT
                      !.parent = IF rankX < rankY THEN MapSet(@, rootX, rootY)
                                 ELSE MapSet(@, rootY, rootX),
                      !.rank = IF rankX = rankY THEN MapSet(@, rootX, rankX + 1) ELSE @,
                      !.componentCount = @ - 1]]

\* What connected returns and the object it leaves
ufConnected(uf, x, y) ==
  LET fx == ufFind(uf, x)
      fy == ufFind(fx.uf, y)
  IN  [ok |-> fx.root = fy.root, uf |-> fy.uf]

----------------------------------------------------------------------------
(* The UnionFind run: calls of add, find, union and connected on one       *)
(* object.  sets is the bookkeeping of the calls: the elements made known  *)
(* so far, grouped as the unions joined them                               *)

\* The elements are 1..MaxElements
MaxElements == 4

Elements == 1..MaxElements

\* sets with x known
withKnown(sets, x) == IF \E S \in sets : x \in S THEN sets ELSE sets \cup {{x}}

setOf(sets, x) == CHOOSE S \in sets : x \in S

\* sets with the sets of x and y made one
merged(sets, x, y) ==
  (sets \ {setOf(sets, x), setOf(sets, y)}) \cup {setOf(sets, x) \cup setOf(sets, y)}

\* x and y were both known and in two sets
inDifferentSets(sets, x, y) ==
  \E S, T \in sets : S # T /\ x \in S /\ y \in T

NoCall == [op |-> "none", x |-> 0, y |-> 0, root |-> 0, ok |-> FALSE,
           countBefore |-> 0, differentBefore |-> FALSE]

InitUnionFind ==
  /\ unionFind = [uf |-> NewUnionFind, sets |-> {}, last |-> NoCall]
  /\ geometry = <<>> /\ game = <<>>
  /\ IdleCore

UfAdd ==
  /\ \E x \in Elements :
       unionFind' = [uf |-> UnionFindAdd(unionFind.uf, x),
                     sets |-> withKnown(unionFind.sets, x),
                     last |-> [NoCall EXCEPT !.op = "add", !.x = x,
                                             !.countBefore = unionFind.uf.componentCount]]
  /\ UNCHANGED <<coreVars, geometry, game>>

UfFind ==
  /\ \E x \in Elements :
       \E r \in {ufFind(unionFind.uf, x)} :
         unionFind' = [uf |-> r.uf,
                       sets |-> withKnown(unionFind.sets, x),
                       last |-> [NoCall EXCEPT !.op = "find", !.x = x, !.root = r.root,
                                               !.countBefore = unionFind.uf.componentCount]]
  /\ UNCHANGED <<coreVars, geometry, game>>

UfUnion ==
  /\ \E x \in Elements, y \in Elements :
       \E r \in {ufUnion(unionFind.uf, x, y)} :
         unionFind' = [uf |-> r.uf,
                       sets |-> merged(withKnown(withKnown(unionFind.sets, x), y), x, y),
                       last |-> [NoCall EXCEPT
                                   !.op = "union", !.x = x, !.y = y, !.ok = r.ok,
                                   !.countBefore = unionFind.uf.componentCount,
                                   !.differentBefore =
                                      inDifferentSets(unionFind.sets, x, y)]]
  /\ UNCHANGED <<coreVars, geometry, game>>

UfConnected ==
  /\ \E x \in Elements, y \in Elements :
       \E r \in {ufConnected(unionFind.uf, x, y)} :
         unionFind' = [uf |-> r.uf,
                       sets |-> withKnown(withKnown(unionFind.sets, x), y),
                       last |-> [NoCall EXCEPT
                                   !.op = "connected", !.x = x, !.y = y, !.ok = r.ok,
                                   !.countBefore = unionFind.uf.componentCount]]
  /\ UNCHANGED <<coreVars, geometry, game>>

NextUnionFind ==
  \/ UfAdd
  \/ UfFind
  \/ UfUnion
  \/ UfConnected

SpecUnionFind == InitUnionFind /\ [][NextUnionFind]_vars

\* C39: after any sequence of add, find, union and connected calls,
\* componentCount is the number of distinct sets among the known elements,
\* find returns the same root for two elements exactly when unions joined
\* them, and union(x, y) returns true and lowers componentCount by exactly
\* one if and only if x and y were in different sets (both known before the
\* call, in two sets; an element the call itself makes known was in no set)
C39_UnionFindTracksSets ==
  /\ DOMAIN unionFind.uf.parent = UNION unionFind.sets
  /\ unionFind.uf.componentCount = Cardinality(unionFind.sets)
  /\ \A x, y \in DOMAIN unionFind.uf.parent :
        (ufFind(unionFind.uf, x).root = ufFind(unionFind.uf, y).root)
          <=> (setOf(unionFind.sets, x) = setOf(unionFind.sets, y))
  /\ unionFind.last.op = "find" =>
        unionFind.last.root = ufFind(unionFind.uf, unionFind.last.x).root
  /\ unionFind.last.op = "connected" =>
        (unionFind.last.ok
           <=> setOf(unionFind.sets, unionFind.last.x) = setOf(unionFind.sets, unionFind.last.y))
  /\ unionFind.last.op = "union" =>
        ((unionFind.last.ok
            /\ unionFind.uf.componentCount = unionFind.last.countBefore - 1)
          <=> unionFind.last.differentBefore)

\* A union of two sets of two elements each has just returned true, with a
\* chain of parents of length two left in the object
C39_Witness ==
  /\ unionFind.last.op = "union" /\ unionFind.last.ok
  /\ unionFind.last.differentBefore
  /\ Cardinality(unionFind.sets) = 1
  /\ Cardinality(DOMAIN unionFind.uf.parent) = 4
  /\ \E x \in DOMAIN unionFind.uf.parent :
        unionFind.uf.parent[unionFind.uf.parent[x]] # unionFind.uf.parent[x]

====
